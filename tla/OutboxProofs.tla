---------------------------- MODULE OutboxProofs ----------------------------
(***************************************************************************)
(* Proofs about Outbox, for any number of rows, replicas and faults, any    *)
(* batch size, timeouts and clock skew.                                     *)
(***************************************************************************)
EXTENDS Outbox, TLAPS

\* The inductive invariant, part by part.

\* A row carries a token exactly while it is being processed.
TokenShape == \A r \in Row : claimToken[r] # Null <=> status[r] = "processing"

\* A replica holds a lease exactly while it claims or works; it then has a row in
\* hand if it works.
CycleShape ==
  \A p \in Proc :
    /\ lease[p] # Null <=> pc[p] \in Working \union {"claiming"}
    /\ pc[p] \in Working => current[p] \in batch[p]

\* No two replicas hold the same token.
LeasesDiffer ==
  \A p, q \in Proc : p # q /\ lease[p] # Null => lease[p] # lease[q]

\* The locked rows are the batches of the open claim transactions.
LocksMatch ==
  \A r \in Row, p \in Proc :
    lockedBy[r] = p <=> pc[p] = "claiming" /\ r \in batch[p]

\* An open claim's token is on no row yet, and its rows are as it read them.
ClaimPending ==
  \A p \in Proc : pc[p] = "claiming" =>
    /\ \A r \in Row : claimToken[r] # lease[p]
    /\ \A r \in batch[p] : seen[p][r] = attemptCount[r] /\ status[r] \in Open

\* A row that carries a working replica's token is in its batch, is not
\* superseded, and has the attempt count the replica read.
HeldIsIntact ==
  \A p \in Proc, r \in Row : pc[p] \in Working /\ claimToken[r] = lease[p] =>
    /\ r \in batch[p] \ superseded[p]
    /\ seen[p][r] = attemptCount[r]

\* What has been delivered is known to be.
DeliveryKnown ==
  \A p \in Proc : pc[p] \in {"delivered", "marking"} => delivered[current[p]]

IInv ==
  /\ TypeOK
  /\ TokenShape
  /\ CycleShape
  /\ LeasesDiffer
  /\ LocksMatch
  /\ ClaimPending
  /\ HeldIsIntact
  /\ LeaseIntact
  /\ DeliveryKnown
  /\ PublishedWasDelivered

LEMMA InitInv == Init => IInv
<1> SUFFICES ASSUME Init PROVE IInv
  OBVIOUS
<1> USE OutboxAssumption DEF Init
<1>1. TypeOK
  BY DEF TypeOK, Status, PC, Working, Ticks
<1>2. TokenShape /\ CycleShape /\ LeasesDiffer /\ LocksMatch
  BY DEF TokenShape, CycleShape, LeasesDiffer, LocksMatch, Working
<1>3. ClaimPending /\ HeldIsIntact /\ LeaseIntact /\ DeliveryKnown
  BY DEF ClaimPending, HeldIsIntact, LeaseIntact, DeliveryKnown, Working
<1>4. PublishedWasDelivered
  BY DEF PublishedWasDelivered
<1> QED
  BY <1>1, <1>2, <1>3, <1>4 DEF IInv

-----------------------------------------------------------------------------
\* Time passes: no part of the invariant but the types looks at an instant.
LEMMA TickInv == IInv /\ Tick => IInv'
<1> SUFFICES ASSUME IInv, Tick PROVE IInv'
  OBVIOUS
<1> USE OutboxAssumption DEF IInv, Tick, columns, memory
<1>1. TypeOK'
  BY DEF TypeOK, Ticks
<1>2. (TokenShape /\ CycleShape /\ LeasesDiffer /\ LocksMatch)'
  BY DEF TokenShape, CycleShape, LeasesDiffer, LocksMatch
<1>3. (ClaimPending /\ HeldIsIntact /\ LeaseIntact /\ DeliveryKnown)'
  BY DEF ClaimPending, HeldIsIntact, LeaseIntact, DeliveryKnown
<1>4. PublishedWasDelivered'
  BY DEF PublishedWasDelivered
<1> QED
  BY <1>1, <1>2, <1>3, <1>4

\* A cycle that ends without touching a row leaves every other replica's claim as
\* it was.
LEMMA ForgetInv ==
  ASSUME IInv, NEW p \in Proc, NEW next \in {"down", "idle"},
         ForgetCycle(p, next), ReleaseLocks(p),
         UNCHANGED <<columns, deleted, delivered, expired, deadReported>>,
         faults' \in 0..MaxFaults, armed' \in [Proc -> BOOLEAN]
  PROVE  IInv'
<1> USE OutboxAssumption DEF IInv, ForgetCycle, ReleaseLocks, columns
<1>1. TypeOK'
  BY DEF TypeOK, PC
<1>2. (TokenShape /\ CycleShape /\ LeasesDiffer)'
  BY DEF TypeOK, TokenShape, CycleShape, LeasesDiffer, Working
<1>3. LocksMatch'
  BY DEF TypeOK, LocksMatch
<1>4. ClaimPending'
  BY DEF TypeOK, ClaimPending
<1>5. HeldIsIntact'
  BY DEF TypeOK, HeldIsIntact, Working
<1>6. LeaseIntact'
  BY DEF TypeOK, LeaseIntact, Working
<1>7. (DeliveryKnown /\ PublishedWasDelivered)'
  BY DEF TypeOK, DeliveryKnown, PublishedWasDelivered
<1> QED
  BY <1>1, <1>2, <1>3, <1>4, <1>5, <1>6, <1>7

\* Steps that neither touch a row nor a replica's cycle.
LEMMA AsideInv ==
  ASSUME IInv, UNCHANGED <<columns, lockedBy, pc, lease, batch, current, seen,
                           delivered, expired, superseded, deadReported>>,
         deleted' \in [Row -> BOOLEAN], faults' \in 0..MaxFaults,
         armed' \in [Proc -> BOOLEAN]
  PROVE  IInv'
BY DEF IInv, columns, TypeOK, TokenShape, CycleShape, LeasesDiffer, LocksMatch,
       ClaimPending, HeldIsIntact, LeaseIntact, DeliveryKnown, PublishedWasDelivered

\* A process started in place of one that is down holds nothing yet.
LEMMA StartInv == ASSUME IInv, NEW p \in Proc, start(p) PROVE IInv'
<1> USE OutboxAssumption DEF IInv, start, columns
<1>1. TypeOK'
  BY DEF TypeOK, PC
<1>2. (TokenShape /\ CycleShape /\ LeasesDiffer /\ LocksMatch)'
  BY DEF TypeOK, TokenShape, CycleShape, LeasesDiffer, LocksMatch, Working
<1>3. (ClaimPending /\ HeldIsIntact /\ LeaseIntact)'
  BY DEF TypeOK, ClaimPending, HeldIsIntact, LeaseIntact, Working
<1>4. (DeliveryKnown /\ PublishedWasDelivered)'
  BY DEF TypeOK, DeliveryKnown, PublishedWasDelivered
<1> QED
  BY <1>1, <1>2, <1>3, <1>4

-----------------------------------------------------------------------------
\* The batch is locked under a token nothing refers to, and nothing else holds.
LEMMA RunCycleInv == ASSUME IInv, NEW p \in Proc, runCycle(p) PROVE IInv'
<1> USE OutboxAssumption DEF IInv, columns
<1>1. PICK B \in SUBSET Row, t \in Token \ TokensInUse :
        /\ \A r \in B : Claimable(r) /\ NotSkipped(r)
        /\ lockedBy' = [r \in Row |-> IF r \in B THEN p ELSE lockedBy[r]]
        /\ lease' = [lease EXCEPT ![p] = t]
        /\ batch' = [batch EXCEPT ![p] = B]
        /\ seen' = [seen EXCEPT ![p] =
                      [r \in Row |-> IF r \in B THEN attemptCount[r] ELSE 0]]
  BY DEF runCycle, OldestDue
<1>2. /\ pc[p] = "idle" /\ pc' = [pc EXCEPT ![p] = "claiming"]
      /\ UNCHANGED <<columns, deleted, armed, current, faults,
                     delivered, expired, superseded, deadReported>>
  BY DEF runCycle
<1>3. /\ \A r \in Row : claimToken[r] # t
      /\ \A q \in Proc : lease[q] # t
  BY DEF TokensInUse
<1>4. TypeOK'
  BY <1>1, <1>2 DEF TypeOK, PC
<1>5. (TokenShape /\ CycleShape /\ LeasesDiffer)'
  BY <1>1, <1>2, <1>3 DEF TypeOK, TokenShape, CycleShape, LeasesDiffer, Working
<1>6. LocksMatch'
  BY <1>1, <1>2 DEF TypeOK, LocksMatch, NotSkipped
<1>7. ClaimPending'
  BY <1>1, <1>2, <1>3 DEF TypeOK, ClaimPending, Claimable
<1>8. (HeldIsIntact /\ LeaseIntact)'
  BY <1>1, <1>2 DEF TypeOK, HeldIsIntact, LeaseIntact, Working
<1>9. (DeliveryKnown /\ PublishedWasDelivered)'
  BY <1>1, <1>2 DEF TypeOK, DeliveryKnown, PublishedWasDelivered
<1> QED
  BY <1>4, <1>5, <1>6, <1>7, <1>8, <1>9

\* While a claim transaction is open its rows belong to no other open claim.
LEMMA OpenClaimsDisjoint ==
  ASSUME IInv, NEW p \in Proc, NEW q \in Proc, p # q,
         pc[p] = "claiming", pc[q] = "claiming"
  PROVE  batch[p] \intersect batch[q] = {}
BY DEF IInv, TypeOK, LocksMatch

\* The claim commits: its rows are the replica's own, and lost to all others.
LEMMA ClaimCommitsInv == ASSUME IInv, NEW p \in Proc, ClaimCommits(p) PROVE IInv'
<1> USE OutboxAssumption DEF IInv, columns
<1>1. PICK s \in Skew : Stamp(p, s)
  BY DEF ClaimCommits
<1>2. PICK r0 \in batch[p] : current' = [current EXCEPT ![p] = r0]
  BY DEF ClaimCommits
<1>3. /\ pc[p] = "claiming" /\ pc' = [pc EXCEPT ![p] = "publishing"]
      /\ superseded' = Supersede(p, {})
      /\ ReleaseLocks(p)
      /\ UNCHANGED <<deleted, armed, lease, batch, seen, faults, delivered, deadReported>>
  BY DEF ClaimCommits
<1>4. TypeOK'
  <2>1. /\ status' \in [Row -> Status] /\ claimAge' \in [Row -> Ticks]
        /\ claimToken' \in [Row -> Token \union {Null}]
        /\ expired' \in [Row -> BOOLEAN]
        /\ UNCHANGED <<attemptCount, nextAttemptAt>>
    BY <1>1, <1>3 DEF TypeOK, Status, Ticks, Stamp
  <2>2. lockedBy' \in [Row -> Proc \union {Null}] /\ superseded' \in [Proc -> SUBSET Row]
    BY <1>3 DEF TypeOK, Supersede, ReleaseLocks
  <2>3. current' \in [Proc -> Row \union {Null}] /\ pc' \in [Proc -> PC]
    BY <1>2, <1>3 DEF TypeOK, PC, Working
  <2> QED
    BY <1>3, <2>1, <2>2, <2>3 DEF TypeOK
<1>5. (TokenShape /\ CycleShape /\ LeasesDiffer)'
  BY <1>1, <1>2, <1>3 DEF TypeOK, TokenShape, CycleShape, LeasesDiffer, Working, Stamp
<1>6. LocksMatch'
  BY <1>3 DEF TypeOK, LocksMatch, ReleaseLocks
<1>7. ClaimPending'
  BY <1>1, <1>3, OpenClaimsDisjoint DEF TypeOK, ClaimPending, LeasesDiffer, CycleShape, Stamp
<1>8. HeldIsIntact'
  BY <1>1, <1>3 DEF TypeOK, ClaimPending, HeldIsIntact, LeasesDiffer, CycleShape,
                    Working, Stamp, Supersede
<1>9. LeaseIntact'
  BY <1>1, <1>2, <1>3 DEF TypeOK, ClaimPending, LeaseIntact, Working, Stamp, Supersede
<1>10. (DeliveryKnown /\ PublishedWasDelivered)'
  BY <1>1, <1>2, <1>3 DEF TypeOK, DeliveryKnown, PublishedWasDelivered, Stamp
<1> QED
  BY <1>4, <1>5, <1>6, <1>7, <1>8, <1>9, <1>10

\* The claim throws.  If it committed all the same, its rows carry a token no
\* replica holds.
LEMMA ClaimThrowsInv == ASSUME IInv, NEW p \in Proc, ClaimThrows(p) PROVE IInv'
<1> USE OutboxAssumption DEF IInv, columns
<1>1. /\ pc[p] = "claiming" /\ pc' = [pc EXCEPT ![p] = "idle"]
      /\ ReleaseLocks(p)
      /\ lease' = [lease EXCEPT ![p] = Null]
      /\ batch' = [batch EXCEPT ![p] = {}]
      /\ seen' = [seen EXCEPT ![p] = [r \in Row |-> 0]]
      /\ faults' \in 0..MaxFaults
      /\ UNCHANGED <<deleted, armed, current, delivered, deadReported>>
  BY DEF ClaimThrows, Fault, TypeOK
<1>2. CASE superseded' = [superseded EXCEPT ![p] = {}] /\ UNCHANGED <<columns, expired>>
  <2>1. TypeOK'
    BY <1>1, <1>2 DEF TypeOK, PC, ReleaseLocks
  <2>2. (TokenShape /\ CycleShape /\ LeasesDiffer)'
    BY <1>1, <1>2 DEF TypeOK, TokenShape, CycleShape, LeasesDiffer, Working
  <2>3. (LocksMatch /\ ClaimPending)'
    BY <1>1, <1>2 DEF TypeOK, LocksMatch, ClaimPending, ReleaseLocks
  <2>4. (HeldIsIntact /\ LeaseIntact)'
    BY <1>1, <1>2 DEF TypeOK, HeldIsIntact, LeaseIntact, Working
  <2>5. (DeliveryKnown /\ PublishedWasDelivered)'
    BY <1>1, <1>2 DEF TypeOK, DeliveryKnown, PublishedWasDelivered
  <2> QED
    BY <2>1, <2>2, <2>3, <2>4, <2>5
<1>3. CASE superseded' = Supersede(p, {}) /\ \E s \in Skew : Stamp(p, s)
  <2> PICK s \in Skew : Stamp(p, s)
    BY <1>3
  <2>1. TypeOK'
    BY <1>1, <1>3 DEF TypeOK, PC, Status, Ticks, Stamp, Supersede, ReleaseLocks
  <2>2. (TokenShape /\ CycleShape /\ LeasesDiffer)'
    BY <1>1 DEF TypeOK, TokenShape, CycleShape, LeasesDiffer, Working, Stamp
  <2>3. LocksMatch'
    BY <1>1 DEF TypeOK, LocksMatch, ReleaseLocks
  <2>4. ClaimPending'
    BY <1>1, OpenClaimsDisjoint DEF TypeOK, ClaimPending, LeasesDiffer, CycleShape, Stamp
  <2>5. HeldIsIntact'
    BY <1>1, <1>3 DEF TypeOK, HeldIsIntact, LeasesDiffer, CycleShape, Working, Stamp, Supersede
  <2>6. LeaseIntact'
    BY <1>1, <1>3 DEF TypeOK, LeaseIntact, Working, Stamp, Supersede
  <2>7. (DeliveryKnown /\ PublishedWasDelivered)'
    BY <1>1 DEF TypeOK, DeliveryKnown, PublishedWasDelivered, Stamp
  <2> QED
    BY <2>1, <2>2, <2>3, <2>4, <2>5, <2>6, <2>7
<1> QED
  BY <1>2, <1>3 DEF ClaimThrows

-----------------------------------------------------------------------------
\* publish() in flight, delivering, resolving or rejecting: only where the
\* replica stands changes, and the event is known delivered once it is.
LEMMA PublishInv ==
  ASSUME IInv, NEW p \in Proc, Deliver(p) \/ PublishResolves(p) \/ PublishRejects(p)
  PROVE  IInv'
<1> USE OutboxAssumption DEF IInv, columns, memory
<1>1. PICK x \in {"delivered", "marking", "failing", "failing_permanently"} :
        /\ pc' = [pc EXCEPT ![p] = x]
        /\ pc[p] \in {"publishing", "delivered"}
        /\ x = "marking" => pc[p] = "delivered"
  BY DEF Deliver, PublishResolves, PublishRejects
<1>2. UNCHANGED <<columns, deleted, lockedBy, memory, faults, expired, superseded, deadReported>>
  BY DEF Deliver, PublishResolves, PublishRejects
<1>3. /\ delivered' \in [Row -> BOOLEAN]
      /\ \A r \in Row : delivered[r] => delivered'[r]
      /\ pc'[p] = "delivered" => delivered'[current[p]]
  <2>1. current[p] \in Row
    BY <1>1 DEF TypeOK, CycleShape, Working
  <2>2. delivered \in [Row -> BOOLEAN] /\ pc \in [Proc -> PC]
    BY DEF TypeOK
  <2>3. CASE Deliver(p)
    BY <2>1, <2>2, <2>3 DEF Deliver
  <2>4. CASE PublishResolves(p) \/ PublishRejects(p)
    <3>1. UNCHANGED delivered /\ pc'[p] # "delivered"
      BY <2>2, <2>4 DEF PublishResolves, PublishRejects
    <3> QED
      BY <2>2, <3>1
  <2> QED
    BY <2>3, <2>4
<1>4. TypeOK'
  BY <1>1, <1>2, <1>3 DEF TypeOK, PC, Working
<1>5. (TokenShape /\ CycleShape /\ LeasesDiffer /\ LocksMatch)'
  <2>1. CycleShape'
    BY <1>1, <1>2 DEF TypeOK, CycleShape, Working
  <2>2. LocksMatch'
    BY <1>1, <1>2 DEF TypeOK, LocksMatch, Working
  <2>3. TokenShape'
    BY <1>1, <1>2 DEF TypeOK, TokenShape, Working
  <2>4. LeasesDiffer'
    BY <1>1, <1>2 DEF TypeOK, LeasesDiffer, Working
  <2> QED
    BY <2>1, <2>2, <2>3, <2>4
<1>6. (ClaimPending /\ HeldIsIntact /\ LeaseIntact)'
  BY <1>1, <1>2 DEF TypeOK, ClaimPending, HeldIsIntact, LeaseIntact, Working
<1>7. DeliveryKnown'
  <2> SUFFICES ASSUME NEW q \in Proc, pc'[q] \in {"delivered", "marking"}
               PROVE  delivered'[current[q]]
    BY <1>2 DEF DeliveryKnown
  <2>1. current[q] \in Row
    BY <1>1 DEF TypeOK, CycleShape, Working
  <2>2. CASE q = p
    BY <2>1, <2>2, <1>1, <1>3 DEF TypeOK, DeliveryKnown
  <2>3. CASE q # p
    BY <2>1, <2>3, <1>1, <1>3 DEF TypeOK, DeliveryKnown
  <2> QED
    BY <2>2, <2>3
<1>8. PublishedWasDelivered'
  BY <1>2, <1>3 DEF PublishedWasDelivered
<1> QED
  BY <1>4, <1>5, <1>6, <1>7, <1>8

\* What an outcome's UPDATE may have done: at most the row in hand, and that only
\* if it still carried the token; it then carries none.
OutcomeWritten(p) ==
  /\ status' \in [Row -> Status]
  /\ attemptCount' \in [Row -> Nat]
  /\ nextAttemptAt' \in [Row -> Ticks]
  /\ claimAge' \in [Row -> Ticks]
  /\ claimToken' \in [Row -> Token \union {Null}]
  /\ \A r \in Row :
       \/ UNCHANGED <<status[r], attemptCount[r], claimToken[r]>>
       \/ /\ r = current[p] /\ claimToken[r] = lease[p] /\ lockedBy[r] = Null
          /\ claimToken'[r] = Null
          /\ status'[r] # "processing"
          /\ status'[r] = "published" => delivered[r]

\* The row in hand no longer carries the replica's token.
LetGo(p) == claimToken'[current[p]] # lease[p]

LEMMA UpdateWrites ==
  ASSUME IInv, NEW p \in Proc, pc[p] \in Working,
         NEW new \in Status \ {"processing"}, NEW attempts \in Nat, NEW due \in Ticks,
         new = "published" => delivered[current[p]],
         updateClaimed(p, new, attempts, due)
  PROVE  OutcomeWritten(p) /\ LetGo(p)
<1>1. /\ status' \in [Row -> Status] /\ attemptCount' \in [Row -> Nat]
      /\ nextAttemptAt' \in [Row -> Ticks] /\ claimAge' \in [Row -> Ticks]
      /\ claimToken' \in [Row -> Token \union {Null}]
  BY DEF IInv, TypeOK, updateClaimed, Ticks
<1>2. ASSUME NEW r \in Row
      PROVE  \/ UNCHANGED <<status[r], attemptCount[r], claimToken[r]>>
             \/ /\ r = current[p] /\ claimToken[r] = lease[p] /\ lockedBy[r] = Null
                /\ claimToken'[r] = Null
                /\ status'[r] # "processing"
                /\ status'[r] = "published" => delivered[r]
  BY DEF IInv, TypeOK, updateClaimed, Claimed
<1>3. LetGo(p)
  BY OutboxAssumption DEF IInv, TypeOK, CycleShape, Working, updateClaimed, Claimed, LetGo
<1> QED
  BY <1>1, <1>2, <1>3 DEF OutcomeWritten

LEMMA NothingWritten ==
  ASSUME IInv, NEW p \in Proc, UNCHANGED columns
  PROVE  OutcomeWritten(p)
BY DEF IInv, TypeOK, OutcomeWritten, columns

LEMMA PublishedWrites ==
  ASSUME IInv, NEW p \in Proc, pc[p] = "marking", UpdatePublished(p)
  PROVE  OutcomeWritten(p) /\ LetGo(p)
<1>1. current[p] \in Row /\ delivered[current[p]]
  BY DEF IInv, TypeOK, CycleShape, DeliveryKnown, Working
<1>2. attemptCount[current[p]] \in Nat /\ Null \in Ticks
  BY <1>1 DEF IInv, TypeOK, Ticks
<1> QED
  BY <1>1, <1>2, UpdateWrites DEF UpdatePublished, Status, Working

LEMMA FailedWrites ==
  ASSUME IInv, NEW p \in Proc, pc[p] \in {"failing", "failing_permanently"}, UpdateFailed(p)
  PROVE  OutcomeWritten(p) /\ LetGo(p)
<1>1. current[p] \in Row
  BY DEF IInv, TypeOK, CycleShape, Working
<1>2. Attempt(p) \in Nat /\ Null \in Ticks
  BY <1>1 DEF IInv, TypeOK, Attempt, Ticks
<1>3. CASE updateClaimed(p, "dead_letter", Attempt(p), Null)
  BY <1>2, <1>3, UpdateWrites DEF Status, Working
<1>4. CASE \E due \in nextOutboxAttemptAt(Attempt(p)) :
             updateClaimed(p, "pending", Attempt(p), due)
  <2>1. PICK due \in nextOutboxAttemptAt(Attempt(p)) :
               updateClaimed(p, "pending", Attempt(p), due)
    BY <1>4
  <2>2. due \in Ticks
    BY OutboxAssumption DEF nextOutboxAttemptAt, Ticks
  <2> QED
    BY <1>2, <2>1, <2>2, UpdateWrites DEF Status, Working
<1> QED
  BY <1>3, <1>4 DEF UpdateFailed

\* Another replica's open claim is untouched by an outcome: its rows are locked.
LEMMA OthersClaim ==
  ASSUME IInv, NEW p \in Proc, OutcomeWritten(p), UNCHANGED lockedBy,
         NEW x, x # "claiming", pc' = [pc EXCEPT ![p] = x],
         \A q \in Proc \ {p} :
           lease'[q] = lease[q] /\ batch'[q] = batch[q] /\ seen'[q] = seen[q]
  PROVE  ClaimPending'
<1> SUFFICES ASSUME NEW q \in Proc, pc'[q] = "claiming"
             PROVE  /\ \A r \in Row : claimToken'[r] # lease'[q]
                    /\ \A r \in batch'[q] : seen'[q][r] = attemptCount'[r] /\ status'[r] \in Open
  BY DEF ClaimPending
<1>1. q # p /\ pc[q] = "claiming"
  BY DEF IInv, TypeOK
<1>2. lease'[q] = lease[q] /\ batch'[q] = batch[q] /\ seen'[q] = seen[q]
  BY <1>1
<1>3. lease[q] # Null /\ \A r \in Row : claimToken[r] # lease[q]
  BY <1>1 DEF IInv, CycleShape, ClaimPending
<1>4. ASSUME NEW r \in Row
      PROVE  claimToken'[r] # lease'[q]
  BY <1>2, <1>3 DEF OutcomeWritten
<1>5. ASSUME NEW r \in batch[q]
      PROVE  seen'[q][r] = attemptCount'[r] /\ status'[r] \in Open
  <2>1. r \in Row
    BY DEF IInv, TypeOK
  <2>2. lockedBy[r] # Null
    BY <1>1, <2>1, OutboxAssumption DEF IInv, LocksMatch
  <2>3. UNCHANGED <<status[r], attemptCount[r]>>
    BY <2>1, <2>2 DEF OutcomeWritten
  <2> QED
    BY <1>1, <1>2, <2>3 DEF IInv, ClaimPending
<1> QED
  BY <1>2, <1>4, <1>5

\* The row part of the invariant after an outcome is written, whatever the replica
\* does next.
LEMMA OutcomeInv ==
  ASSUME IInv, NEW p \in Proc, pc[p] \in {"marking", "failing", "failing_permanently"},
         OutcomeWritten(p), UNCHANGED <<lockedBy, delivered, deleted, expired>>,
         armed' = armed, faults' \in 0..MaxFaults, deadReported' \in [Row -> BOOLEAN],
         NEW x, pc' = [pc EXCEPT ![p] = x],
         \/ /\ x \in {"failing", "failing_permanently"}
            /\ UNCHANGED <<lease, batch, current, seen, superseded>>
         \/ ForgetCycle(p, x) /\ x = "idle"
         \/ \E r \in batch[p] \ {current[p]} :
              /\ x = "publishing" /\ LetGo(p)
              /\ current' = [current EXCEPT ![p] = r]
              /\ batch' = [batch EXCEPT ![p] = batch[p] \ {current[p]}]
              /\ superseded' = [superseded EXCEPT ![p] = @ \intersect (batch[p] \ {current[p]})]
              /\ UNCHANGED <<lease, seen>>
  PROVE  IInv'
<1> USE OutboxAssumption DEF IInv, OutcomeWritten
<1>1. CASE x \in {"failing", "failing_permanently"} /\ UNCHANGED <<lease, batch, current, seen, superseded>>
  <2> USE <1>1
  <2>1. TypeOK'
    BY DEF TypeOK, PC, Working
  <2>2. (TokenShape /\ CycleShape /\ LeasesDiffer)'
    BY DEF TypeOK, TokenShape, CycleShape, LeasesDiffer, Working
  <2>3. LocksMatch'
    BY DEF TypeOK, LocksMatch
  <2>4. ClaimPending'
    <3>1. x # "claiming"
      OBVIOUS
    <3>2. \A q \in Proc \ {p} :
            lease'[q] = lease[q] /\ batch'[q] = batch[q] /\ seen'[q] = seen[q]
      BY DEF TypeOK
    <3> QED
      BY <3>1, <3>2, OthersClaim
  <2>5. HeldIsIntact'
    BY DEF TypeOK, HeldIsIntact, CycleShape, Working
  <2>6. LeaseIntact'
    BY DEF TypeOK, LeaseIntact, LeasesDiffer, CycleShape, Working
  <2>7. DeliveryKnown'
    BY DEF TypeOK, DeliveryKnown
  <2>8. PublishedWasDelivered'
    BY DEF TypeOK, PublishedWasDelivered
  <2> QED
    BY <2>1, <2>2, <2>3, <2>4, <2>5, <2>6, <2>7, <2>8
<1>2. CASE ForgetCycle(p, x) /\ x = "idle"
  <2> USE <1>2 DEF ForgetCycle
  <2>1. TypeOK'
    BY DEF TypeOK, PC
  <2>2. (TokenShape /\ CycleShape /\ LeasesDiffer)'
    BY DEF TypeOK, TokenShape, CycleShape, LeasesDiffer, Working
  <2>3. LocksMatch'
    BY DEF TypeOK, LocksMatch
  <2>4. ClaimPending'
    <3>1. x # "claiming"
      OBVIOUS
    <3>2. \A q \in Proc \ {p} :
            lease'[q] = lease[q] /\ batch'[q] = batch[q] /\ seen'[q] = seen[q]
      BY DEF TypeOK
    <3> QED
      BY <3>1, <3>2, OthersClaim
  <2>5. HeldIsIntact'
    BY DEF TypeOK, HeldIsIntact, CycleShape, Working
  <2>6. LeaseIntact'
    BY DEF TypeOK, LeaseIntact, LeasesDiffer, CycleShape, Working
  <2>7. (DeliveryKnown /\ PublishedWasDelivered)'
    BY DEF TypeOK, DeliveryKnown, PublishedWasDelivered
  <2> QED
    BY <2>1, <2>2, <2>3, <2>4, <2>5, <2>6, <2>7
<1>3. ASSUME NEW n \in batch[p] \ {current[p]},
             x = "publishing", LetGo(p),
             current' = [current EXCEPT ![p] = n],
             batch' = [batch EXCEPT ![p] = batch[p] \ {current[p]}],
             superseded' = [superseded EXCEPT ![p] = @ \intersect (batch[p] \ {current[p]})],
             UNCHANGED <<lease, seen>>
      PROVE  IInv'
  <2> USE <1>3
  <2>1. TypeOK'
    BY DEF TypeOK, PC, Working
  <2>2. (TokenShape /\ CycleShape /\ LeasesDiffer)'
    BY DEF TypeOK, TokenShape, CycleShape, LeasesDiffer, Working
  <2>3. LocksMatch'
    BY DEF TypeOK, LocksMatch
  <2>4. ClaimPending'
    <3>1. x # "claiming"
      OBVIOUS
    <3>2. \A q \in Proc \ {p} :
            lease'[q] = lease[q] /\ batch'[q] = batch[q] /\ seen'[q] = seen[q]
      BY DEF TypeOK
    <3> QED
      BY <3>1, <3>2, OthersClaim
  <2>5. HeldIsIntact'
    BY DEF TypeOK, HeldIsIntact, CycleShape, Working, LetGo
  <2>6. LeaseIntact'
    BY DEF TypeOK, LeaseIntact, LeasesDiffer, CycleShape, Working
  <2>7. (DeliveryKnown /\ PublishedWasDelivered)'
    BY DEF TypeOK, DeliveryKnown, PublishedWasDelivered
  <2> QED
    BY <2>1, <2>2, <2>3, <2>4, <2>5, <2>6, <2>7
<1> QED
  BY <1>1, <1>2, <1>3

-----------------------------------------------------------------------------
\* Moving on to the next event is one of the ways OutcomeInv knows.
LEMMA NextEventInv ==
  ASSUME IInv, NEW p \in Proc, pc[p] \in {"marking", "failing", "failing_permanently"},
         OutcomeWritten(p), LetGo(p), NextEvent(p),
         UNCHANGED <<lockedBy, delivered, deleted, expired, armed, faults>>,
         deadReported' \in [Row -> BOOLEAN]
  PROVE  IInv'
<1>1. faults' \in 0..MaxFaults
  BY DEF IInv, TypeOK
<1>2. CASE ForgetCycle(p, "idle")
  BY <1>1, <1>2, OutcomeInv DEF ForgetCycle
<1>3. ASSUME NEW r \in batch[p] \ {current[p]},
             /\ pc' = [pc EXCEPT ![p] = "publishing"]
             /\ current' = [current EXCEPT ![p] = r]
             /\ batch' = [batch EXCEPT ![p] = batch[p] \ {current[p]}]
             /\ superseded' = [superseded EXCEPT ![p] = @ \intersect (batch[p] \ {current[p]})]
             /\ UNCHANGED <<lease, seen>>
      PROVE  IInv'
  BY <1>1, <1>3, OutcomeInv
<1> QED
  BY <1>2, <1>3 DEF NextEvent

LEMMA MarkInv ==
  ASSUME IInv, NEW p \in Proc, markPublished(p) \/ markPublishedThrows(p)
  PROVE  IInv'
<1>1. CASE markPublished(p)
  <2>1. OutcomeWritten(p) /\ LetGo(p)
    BY <1>1, PublishedWrites DEF markPublished
  <2>2. deadReported' \in [Row -> BOOLEAN]
    BY <1>1 DEF markPublished, IInv, TypeOK
  <2> QED
    BY <1>1, <2>1, <2>2, NextEventInv DEF markPublished
<1>2. CASE markPublishedThrows(p)
  <2>1. OutcomeWritten(p)
    BY <1>2, PublishedWrites, NothingWritten DEF markPublishedThrows
  <2>2. PICK x \in {"failing", "failing_permanently"} : pc' = [pc EXCEPT ![p] = x]
    BY <1>2 DEF markPublishedThrows
  <2>3. faults' \in 0..MaxFaults /\ deadReported' \in [Row -> BOOLEAN]
    BY <1>2, OutboxAssumption DEF markPublishedThrows, Fault, IInv, TypeOK
  <2>4. /\ pc[p] = "marking"
        /\ UNCHANGED <<deleted, lockedBy, memory, delivered, expired, superseded>>
    BY <1>2 DEF markPublishedThrows
  <2> QED
    BY <2>1, <2>2, <2>3, <2>4, OutcomeInv DEF memory
<1> QED
  BY <1>1, <1>2

LEMMA RecordInv ==
  ASSUME IInv, NEW p \in Proc, recordFailure(p) \/ recordFailureThrows(p)
  PROVE  IInv'
<1>0. pc[p] \in {"failing", "failing_permanently"} /\ current[p] \in Row
  BY DEF recordFailure, recordFailureThrows, IInv, TypeOK, CycleShape, Working
<1>1. CASE recordFailure(p)
  <2>1. OutcomeWritten(p) /\ LetGo(p)
    BY <1>0, <1>1, FailedWrites DEF recordFailure
  <2>2. deadReported' \in [Row -> BOOLEAN]
    <3>1. \A d \in [Row -> BOOLEAN], r \in Row, b \in BOOLEAN : [d EXCEPT ![r] = @ \/ b] \in [Row -> BOOLEAN]
      OBVIOUS
    <3>2. IsDeadLetter(p) \in BOOLEAN
      BY DEF IsDeadLetter
    <3> QED
      BY <1>0, <1>1, <3>1, <3>2 DEF recordFailure, IInv, TypeOK
  <2> QED
    BY <1>0, <1>1, <2>1, <2>2, NextEventInv DEF recordFailure
<1>2. CASE recordFailureThrows(p)
  <2>1. OutcomeWritten(p)
    BY <1>0, <1>2, FailedWrites, NothingWritten DEF recordFailureThrows
  <2>2. faults' \in 0..MaxFaults /\ deadReported' \in [Row -> BOOLEAN]
    BY <1>2, OutboxAssumption DEF recordFailureThrows, Fault, IInv, TypeOK
  <2>3. ForgetCycle(p, "idle") /\ UNCHANGED <<deleted, lockedBy, armed, delivered, expired>>
    BY <1>2 DEF recordFailureThrows
  <2> QED
    BY <1>0, <2>1, <2>2, <2>3, OutcomeInv DEF ForgetCycle
<1> QED
  BY <1>1, <1>2

-----------------------------------------------------------------------------
\* Every step of the outbox preserves the invariant.
LEMMA NextInv == IInv /\ [Next]_vars => IInv'
<1> SUFFICES ASSUME IInv, [Next]_vars PROVE IInv'
  OBVIOUS
<1>1. CASE Tick
  BY <1>1, TickInv
<1>2. ASSUME NEW p \in Proc, Cycle(p) PROVE IInv'
  BY <1>2, RunCycleInv, ClaimCommitsInv, PublishInv, MarkInv, RecordInv DEF Cycle, Publishes, Records
<1>3. ASSUME NEW p \in Proc, Failing(p) PROVE IInv'
  <2>1. CASE Crash(p)
    <3>1. faults' \in 0..MaxFaults /\ armed' \in [Proc -> BOOLEAN]
      BY <2>1, OutboxAssumption DEF Crash, Fault, IInv, TypeOK
    <3> QED
      BY <2>1, <3>1, ForgetInv DEF Crash
  <2>2. CASE Stop(p)
    <3>1. faults' \in 0..MaxFaults /\ armed' \in [Proc -> BOOLEAN] /\ deleted' \in [Row -> BOOLEAN]
      BY <2>2, OutboxAssumption DEF Stop, Fault, IInv, TypeOK
    <3> QED
      BY <2>2, <3>1, AsideInv DEF Stop
  <2> QED
    BY <1>3, <2>1, <2>2, ClaimThrowsInv, MarkInv, RecordInv DEF Failing
<1>4. ASSUME NEW p \in Proc, Exit(p) PROVE IInv'
  <2>1. faults' \in 0..MaxFaults /\ armed' \in [Proc -> BOOLEAN]
    BY <1>4 DEF Exit, IInv, TypeOK
  <2> QED
    BY <1>4, <2>1, ForgetInv DEF Exit
<1>5. ASSUME NEW p \in Proc, start(p) PROVE IInv'
  BY <1>5, StartInv
<1>6. ASSUME NEW r \in Row, SoftDeleteOrRestore(r) PROVE IInv'
  <2>1. /\ faults' \in 0..MaxFaults /\ armed' \in [Proc -> BOOLEAN]
        /\ deleted' \in [Row -> BOOLEAN]
    BY <1>6, OutboxAssumption DEF SoftDeleteOrRestore, Fault, memory, IInv, TypeOK
  <2> QED
    BY <1>6, <2>1, AsideInv DEF SoftDeleteOrRestore, memory
<1>7. CASE UNCHANGED vars
  <2>1. /\ faults' \in 0..MaxFaults /\ armed' \in [Proc -> BOOLEAN]
        /\ deleted' \in [Row -> BOOLEAN]
    BY <1>7 DEF vars, memory, IInv, TypeOK
  <2> QED
    BY <1>7, <2>1, AsideInv DEF vars, memory
<1> QED
  BY <1>1, <1>2, <1>3, <1>4, <1>5, <1>6, <1>7 DEF Next

\* The invariant holds of the outbox throughout.
THEOREM Invariance == Spec => []IInv
<1> QED
  BY InitInv, NextInv, PTL DEF Spec

\* Every column and every variable of a replica keeps its type, whatever faults
\* strike (claimDueBatch, updateClaimed, OutboxProcessor).
THEOREM TypeCorrect == Spec => []TypeOK
<1>1. IInv => TypeOK
  BY DEF IInv
<1> QED
  BY <1>1, Invariance, PTL

\* A row no other claim has taken is exactly as the running batch claimed it, for
\* any number of replicas: locks, tokens and the unlocked gap between claim and
\* terminal write fit together.
THEOREM LeaseIsIntact == Spec => []LeaseIntact
<1>1. IInv => LeaseIntact
  BY DEF IInv
<1> QED
  BY <1>1, Invariance, PTL

\* No row is ever recorded published without having been delivered.
THEOREM PublishedIsTrue == Spec => []PublishedWasDelivered
<1>1. IInv => PublishedWasDelivered
  BY DEF IInv
<1> QED
  BY <1>1, Invariance, PTL

-----------------------------------------------------------------------------
\* The outcome an UPDATE writes, seen as a step of the row's holder.
LEMMA WrittenByHolder ==
  ASSUME IInv, NEW p \in Proc, pc[p] \in Working,
         NEW new, NEW attempts, NEW due, updateClaimed(p, new, attempts, due),
         NEW r \in Row, <<status[r], attemptCount[r]>>' # <<status[r], attemptCount[r]>>
  PROVE  /\ r = current[p] /\ r \in batch[p] \ superseded[p]
         /\ status[r] = "processing" /\ seen[p][r] = attemptCount[r]
         /\ status'[r] = new /\ attemptCount'[r] = attempts
<1>1. r = current[p] /\ claimToken[r] = lease[p] /\ status'[r] = new /\ attemptCount'[r] = attempts
  BY DEF IInv, TypeOK, updateClaimed, Claimed
<1>2. status[r] = "processing"
  BY <1>1 DEF IInv, TokenShape, CycleShape
<1> QED
  BY <1>1, <1>2 DEF IInv, HeldIsIntact

\* A step that changes a row other than by claiming it is the writing of an outcome.
LEMMA RowChanges ==
  ASSUME IInv, Next, NEW r \in Row,
         status'[r] # "processing",
         <<status[r], attemptCount[r]>>' # <<status[r], attemptCount[r]>>
  PROVE  \E p \in Proc :
           \/ markPublished(p) /\ UpdatePublished(p)
           \/ markPublishedThrows(p) /\ UpdatePublished(p)
           \/ recordFailure(p) /\ UpdateFailed(p)
           \/ recordFailureThrows(p) /\ UpdateFailed(p)
<1>1. CASE Tick \/ \E q \in Row : SoftDeleteOrRestore(q)
  BY <1>1 DEF Tick, SoftDeleteOrRestore, columns
<1>2. ASSUME NEW p \in Proc,
             \/ runCycle(p) \/ Deliver(p) \/ PublishResolves(p) \/ PublishRejects(p)
             \/ Crash(p) \/ Stop(p) \/ Exit(p) \/ start(p)
      PROVE  FALSE
  BY <1>2 DEF runCycle, Deliver, PublishResolves, PublishRejects, Crash, Stop, Exit, start, columns
<1>3. ASSUME NEW p \in Proc, ClaimCommits(p) \/ ClaimThrows(p) PROVE FALSE
  BY <1>3 DEF ClaimCommits, ClaimThrows, Stamp, columns, IInv, TypeOK
<1>4. ASSUME NEW p \in Proc, markPublishedThrows(p), UNCHANGED columns PROVE FALSE
  BY <1>4 DEF columns
<1>5. ASSUME NEW p \in Proc, recordFailureThrows(p), UNCHANGED columns PROVE FALSE
  BY <1>5 DEF columns
<1> QED
  BY <1>1, <1>2, <1>3, <1>4, <1>5
  DEF Next, Cycle, Publishes, Records, Failing, markPublished, markPublishedThrows, recordFailure, recordFailureThrows

\* Only the replica whose claim of the row still stands can settle it: the token in
\* the predicate of updateClaimed stops every stale attempt.
THEOREM HolderSettles == Spec => OnlyTheHolderSettles
<1>1. ASSUME IInv, [Next]_vars, NEW r \in Row,
             status'[r] # "processing",
             <<status[r], attemptCount[r]>>' # <<status[r], attemptCount[r]>>
      PROVE  \E p \in Proc :
               /\ current[p] = r /\ r \notin superseded[p]
               /\ pc[p] \in {"marking", "failing", "failing_permanently"}
               /\ <<pc[p], current[p]>>' # <<pc[p], current[p]>>
  <2>1. Next
    BY <1>1 DEF vars, columns
  <2>2. PICK p \in Proc :
           \/ markPublished(p) /\ UpdatePublished(p)
           \/ markPublishedThrows(p) /\ UpdatePublished(p)
           \/ recordFailure(p) /\ UpdateFailed(p)
           \/ recordFailureThrows(p) /\ UpdateFailed(p)
    BY <1>1, <2>1, RowChanges
  <2>3. pc[p] \in {"marking", "failing", "failing_permanently"} /\ pc[p] \in Working
    BY <2>2 DEF markPublished, markPublishedThrows, recordFailure, recordFailureThrows, Working
  <2>4. \E new, attempts, due : updateClaimed(p, new, attempts, due)
    BY <2>2 DEF UpdatePublished, UpdateFailed
  <2>5. current[p] = r /\ r \notin superseded[p]
    BY <1>1, <2>3, <2>4, WrittenByHolder
  <2>6. pc'[p] # pc[p]
    <3>1. pc'[p] \in {"idle", "publishing"} \/ (pc[p] = "marking" /\ pc'[p] \in {"failing", "failing_permanently"})
      BY <1>1, <2>2 DEF markPublished, markPublishedThrows, recordFailure, recordFailureThrows,
                        NextEvent, ForgetCycle, IInv, TypeOK
    <3> QED
      BY <2>3, <3>1
  <2> QED
    BY <2>3, <2>5, <2>6
<1>2. IInv /\ [Next]_vars =>
        [\A r \in Row :
           (status'[r] # "processing" /\ <<status[r], attemptCount[r]>>' # <<status[r], attemptCount[r]>>)
             => \E p \in Proc :
                  /\ current[p] = r /\ r \notin superseded[p]
                  /\ pc[p] \in {"marking", "failing", "failing_permanently"}
                  /\ <<pc[p], current[p]>>' # <<pc[p], current[p]>>]_vars
  BY <1>1
<1> QED
  BY <1>2, Invariance, PTL DEF Spec, OnlyTheHolderSettles

-----------------------------------------------------------------------------
\* The promise.

Phase == [r \in Row |-> IF status[r] \in Open THEN "open" ELSE status[r]]

\* Steps that change no outcome, no count and no delivery are invisible.
LEMMA Invisible ==
  ASSUME Phase' = Phase, UNCHANGED <<attemptCount, delivered>>
  PROVE  UNCHANGED Contract!vars
BY DEF Phase, Contract!vars

\* Writing an outcome publishes a delivered event, counts a failure, or (the claim
\* being lost) does nothing.
LEMMA OutcomeIsPromised ==
  ASSUME IInv, NEW p \in Proc, UNCHANGED delivered,
         \/ pc[p] = "marking" /\ UpdatePublished(p)
         \/ pc[p] \in {"failing", "failing_permanently"} /\ UpdateFailed(p)
  PROVE  [Contract!Next]_(Contract!vars)
<1> DEFINE r == current[p]
<1>1. pc[p] \in Working /\ r \in Row
  BY DEF IInv, TypeOK, CycleShape, Working
<1>2. CASE claimToken[r] # lease[p]
  <2>1. UNCHANGED <<status, attemptCount>>
    BY <1>2 DEF UpdatePublished, UpdateFailed, updateClaimed, Claimed, IInv, TypeOK
  <2> QED
    BY <2>1, Invisible DEF Phase
<1>3. CASE claimToken[r] = lease[p]
  <2>1. status[r] = "processing" /\ seen[p][r] = attemptCount[r] /\ attemptCount[r] \in Nat
    BY <1>1, <1>3 DEF IInv, TypeOK, TokenShape, CycleShape, HeldIsIntact
  <2>2. ASSUME NEW new, NEW attempts, NEW due, updateClaimed(p, new, attempts, due)
        PROVE  /\ status' = [status EXCEPT ![r] = new]
               /\ attemptCount' = [attemptCount EXCEPT ![r] = attempts]
    BY <1>1, <1>3, <2>2 DEF updateClaimed, Claimed, IInv, TypeOK
  <2>3. CASE pc[p] = "marking" /\ UpdatePublished(p)
    <3>1. status' = [status EXCEPT ![r] = "published"] /\ attemptCount' = attemptCount
      BY <1>1, <2>2, <2>3 DEF UpdatePublished, IInv, TypeOK
    <3>2. Phase[r] = "open" /\ Phase' = [Phase EXCEPT ![r] = "published"]
      BY <1>1, <2>1, <3>1 DEF Phase, Open, IInv, TypeOK
    <3>3. delivered[r]
      BY <2>3 DEF IInv, DeliveryKnown
    <3> QED
      BY <1>1, <3>1, <3>2, <3>3 DEF Contract!Next, Contract!Publish, Phase
  <2>4. CASE UpdateFailed(p)
    <3>1. Attempt(p) = attemptCount[r] + 1
      BY <2>1 DEF Attempt
    <3>2. attemptCount' = [attemptCount EXCEPT ![r] = attemptCount[r] + 1]
      BY <2>2, <2>4, <3>1 DEF UpdateFailed
    <3>3. \/ status' = [status EXCEPT ![r] = "dead_letter"]
          \/ status' = [status EXCEPT ![r] = "pending"] /\ ~(attemptCount[r] + 1 >= MaxAttempts)
      BY <2>2, <2>4, <3>1 DEF UpdateFailed, IsDeadLetter
    <3>4. /\ Phase[r] = "open"
          /\ \/ Phase' = [Phase EXCEPT ![r] = "dead_letter"]
             \/ Phase' = Phase /\ attemptCount[r] + 1 < MaxAttempts
      <4>1. Phase[r] = "open" /\ status \in [Row -> Status]
        BY <1>1, <2>1 DEF Phase, Open, IInv, TypeOK
      <4>2. CASE status' = [status EXCEPT ![r] = "dead_letter"]
        BY <1>1, <4>1, <4>2 DEF Phase, Open
      <4>3. CASE status' = [status EXCEPT ![r] = "pending"] /\ ~(attemptCount[r] + 1 >= MaxAttempts)
        <5>1. Phase' = Phase
          BY <1>1, <2>1, <4>1, <4>3 DEF Phase, Open
        <5>2. MaxAttempts \in Nat
          BY OutboxAssumption
        <5> QED
          BY <2>1, <4>1, <4>3, <5>1, <5>2
      <4> QED
        BY <3>3, <4>1, <4>2, <4>3
    <3> QED
      BY <1>1, <3>2, <3>4 DEF Contract!Next, Contract!Fail, Phase
  <2> QED
    BY <2>3, <2>4
<1> QED
  BY <1>2, <1>3

LEMMA StepIsPromised ==
  ASSUME IInv, [Next]_vars
  PROVE  [Contract!Next]_(Contract!vars)
<1>1. CASE Tick \/ UNCHANGED vars \/ \E r \in Row : SoftDeleteOrRestore(r)
  BY <1>1, Invisible DEF Phase, Tick, SoftDeleteOrRestore, vars, columns
<1>2. ASSUME NEW p \in Proc,
             \/ runCycle(p) \/ PublishResolves(p) \/ PublishRejects(p)
             \/ Crash(p) \/ Stop(p) \/ Exit(p) \/ start(p)
      PROVE  [Contract!Next]_(Contract!vars)
  BY <1>2, Invisible DEF Phase, runCycle, PublishResolves, PublishRejects, Crash, Stop, Exit,
                         start, columns
<1>3. ASSUME NEW p \in Proc, ClaimCommits(p) \/ ClaimThrows(p)
      PROVE  [Contract!Next]_(Contract!vars)
  <2>1. UNCHANGED <<attemptCount, delivered>>
    BY <1>3 DEF ClaimCommits, ClaimThrows, Stamp, columns
  <2>2. status' = status \/ \E s \in Skew : Stamp(p, s)
    BY <1>3 DEF ClaimCommits, ClaimThrows, columns
  <2>3. \A r \in batch[p] : status[r] \in Open
    BY <1>3 DEF ClaimCommits, ClaimThrows, IInv, ClaimPending
  <2>4. Phase' = Phase
    BY <2>2, <2>3 DEF Phase, Stamp, Open, IInv, TypeOK
  <2> QED
    BY <2>1, <2>4, Invisible
<1>4. ASSUME NEW p \in Proc, Deliver(p)
      PROVE  [Contract!Next]_(Contract!vars)
  <2>1. current[p] \in Row
    BY <1>4 DEF Deliver, IInv, TypeOK, CycleShape, Working
  <2>2. Phase' = Phase /\ UNCHANGED attemptCount
    BY <1>4 DEF Deliver, Phase, columns
  <2> QED
    BY <1>4, <2>1, <2>2 DEF Deliver, Contract!Next, Contract!Deliver, Phase
<1>5. ASSUME NEW p \in Proc,
             \/ markPublished(p) \/ markPublishedThrows(p)
             \/ recordFailure(p) \/ recordFailureThrows(p)
      PROVE  [Contract!Next]_(Contract!vars)
  <2>1. CASE UNCHANGED <<columns, delivered>>
    BY <2>1, Invisible DEF Phase, columns
  <2>2. UNCHANGED delivered
    BY <1>5 DEF markPublished, markPublishedThrows, recordFailure, recordFailureThrows
  <2>3. \/ UNCHANGED columns
        \/ pc[p] = "marking" /\ UpdatePublished(p)
        \/ pc[p] \in {"failing", "failing_permanently"} /\ UpdateFailed(p)
    BY <1>5 DEF markPublished, markPublishedThrows, recordFailure, recordFailureThrows
  <2> QED
    BY <2>1, <2>2, <2>3, OutcomeIsPromised
<1> QED
  BY <1>1, <1>2, <1>3, <1>4, <1>5 DEF Next, Cycle, Publishes, Records, Failing

\* The outbox with its replicas, leases and faults does what OutboxContract promises
\* of each event: at-least-once delivery, true and final outcomes, at most
\* MaxAttempts recorded failures.
THEOREM KeepsContract == Spec => FulfilsContract
<1>1. Init => Contract!Init
  BY DEF Init, Contract!Init, Open
<1>2. IInv /\ [Next]_vars => [Contract!Next]_(Contract!vars)
  BY StepIsPromised
<1> QED
  BY <1>1, <1>2, Invariance, PTL DEF Spec, FulfilsContract, Contract!Spec

-----------------------------------------------------------------------------
(* The two doors to a duplicate                                              *)

\* The row has a recorded failure, or a claim of it has timed out.
Tried(r) == attemptCount[r] > 0 \/ expired[r]

\* The rows of a batch whose event the cycle has yet to deliver.
Ahead(p) == {r \in batch[p] : r = current[p] => pc[p] = "publishing"}

\* A delivered row still to be published has been tried before ...
AheadTried ==
  \A p \in Proc : pc[p] \in Working => \A r \in Ahead(p) : delivered[r] => Tried(r)

\* ... and so has a row two cycles work on, or one that waits for a new claim
\* while a cycle works on it or after its delivery.
SharedTried ==
  \A p, q \in Proc : p # q /\ pc[p] \in Working /\ pc[q] \in Working =>
    \A r \in batch[p] \intersect batch[q] : Tried(r)

InWork(r) == \E p \in Proc : pc[p] \in Working /\ r \in batch[p]

PendingTried ==
  \A r \in Row : status[r] = "pending" /\ (delivered[r] \/ InWork(r)) => Tried(r)

Outlived(r) == claimAge[r] # Null /\ claimAge[r] > ClaimTimeout

\* An open claim takes over only claims that have timed out, and no claim lacks
\* its instant.
TakeoverIsLate ==
  /\ \A p \in Proc : pc[p] = "claiming" =>
       \A r \in batch[p] : status[r] = "processing" => Outlived(r)
  /\ \A r \in Row : status[r] = "processing" => claimAge[r] # Null

CauseInv == AheadTried /\ SharedTried /\ PendingTried /\ TakeoverIsLate

\* What a step that neither claims nor delivers may do to a row: leave it be, or
\* record the outcome of an attempt.
RowKept(r) ==
  /\ UNCHANGED <<delivered[r], expired[r]>>
  /\ \/ /\ UNCHANGED <<status[r], attemptCount[r]>>
        /\ claimAge[r] # Null => claimAge'[r] # Null
        /\ Outlived(r) => Outlived(r)'
     \/ /\ lockedBy[r] = Null
        /\ status'[r] # "processing"
        /\ Tried(r) => Tried(r)'
        /\ status'[r] = "pending" => Tried(r)'

\* What it may do to a cycle: leave it be, go on in it, or end it.
CycleGoesOn(p) ==
  \/ pc'[p] \notin Working \union {"claiming"}
  \/ pc'[p] = "claiming" /\ pc[p] = "claiming" /\ batch'[p] = batch[p]
  \/ /\ pc'[p] \in Working /\ pc[p] \in Working
     /\ batch'[p] \subseteq batch[p] /\ Ahead(p)' \subseteq Ahead(p)

LEMMA KeepsCause ==
  ASSUME IInv, CauseInv, \A r \in Row : RowKept(r), \A p \in Proc : CycleGoesOn(p)
  PROVE  CauseInv'
<1>1. \A r \in Row : (Tried(r) => Tried(r)') /\ (delivered'[r] <=> delivered[r])
  BY DEF RowKept, Tried
<1>2. \A p \in Proc : pc'[p] \in Working =>
        /\ pc[p] \in Working
        /\ batch'[p] \subseteq batch[p] /\ Ahead(p)' \subseteq Ahead(p)
  BY DEF CycleGoesOn, Working
<1>3. \A p \in Proc : Ahead(p) \subseteq Row /\ batch[p] \subseteq Row
  BY DEF Ahead, IInv, TypeOK
<1>4. AheadTried'
  BY <1>1, <1>2, <1>3 DEF CauseInv, AheadTried
<1>5. SharedTried'
  BY <1>1, <1>2, <1>3 DEF CauseInv, SharedTried
<1>6. PendingTried'
  <2> SUFFICES ASSUME NEW r \in Row, status'[r] = "pending", delivered'[r] \/ InWork(r)'
               PROVE  Tried(r)'
    BY DEF PendingTried
  <2>1. InWork(r)' => InWork(r)
    BY <1>2 DEF InWork
  <2>2. CASE status[r] = "pending"
    BY <1>1, <2>1, <2>2 DEF CauseInv, PendingTried
  <2>3. CASE status[r] # "pending"
    BY <2>3 DEF RowKept
  <2> QED BY <2>2, <2>3
<1>7. TakeoverIsLate'
  <2>1. ASSUME NEW p \in Proc, pc'[p] = "claiming", NEW r \in batch'[p], status'[r] = "processing"
        PROVE  Outlived(r)'
    <3>1. pc[p] = "claiming" /\ batch'[p] = batch[p]
      BY <2>1 DEF CycleGoesOn, Working
    <3>2. r \in Row /\ lockedBy[r] # Null
      BY <2>1, <3>1, OutboxAssumption DEF IInv, TypeOK, LocksMatch
    <3>3. status[r] = "processing" /\ (Outlived(r) => Outlived(r)')
      BY <2>1, <3>2 DEF RowKept
    <3> QED BY <2>1, <3>1, <3>3 DEF CauseInv, TakeoverIsLate
  <2>2. \A r \in Row : status'[r] = "processing" => claimAge'[r] # Null
    BY DEF RowKept, CauseInv, TakeoverIsLate
  <2> QED BY <2>1, <2>2 DEF TakeoverIsLate
<1> QED BY <1>4, <1>5, <1>6, <1>7 DEF CauseInv

LEMMA TickCause == IInv /\ CauseInv /\ Tick => CauseInv'
<1> SUFFICES ASSUME IInv, CauseInv, Tick PROVE CauseInv'
  OBVIOUS
<1>1. ASSUME NEW r \in Row  PROVE RowKept(r)
  <2>1. UNCHANGED <<delivered, expired, status, attemptCount>>
    BY DEF Tick
  <2>2. claimAge[r] # Null => claimAge'[r] # Null /\ claimAge'[r] >= claimAge[r]
    BY OutboxAssumption DEF Tick, IInv, TypeOK, Ticks
  <2>3. Outlived(r) => Outlived(r)'
    BY <2>2, OutboxAssumption DEF Outlived, Tick, IInv, TypeOK, Ticks
  <2> QED BY <2>1, <2>2, <2>3 DEF RowKept
<1>2. \A p \in Proc : CycleGoesOn(p)
  BY DEF Tick, memory, CycleGoesOn, Ahead
<1> QED BY <1>1, <1>2, KeepsCause

\* The columns are left alone.
LEMMA AsideRow ==
  ASSUME UNCHANGED <<columns, delivered, expired>>, NEW r \in Row  PROVE RowKept(r)
BY DEF columns, RowKept, Outlived

LEMMA AsideCause ==
  ASSUME IInv, CauseInv, UNCHANGED <<columns, delivered, expired>>, \A p \in Proc : CycleGoesOn(p)
  PROVE  CauseInv'
BY AsideRow, KeepsCause

LEMMA LifeCause ==
  ASSUME IInv, CauseInv, NEW p \in Proc, Crash(p) \/ Stop(p) \/ Exit(p) \/ start(p)
  PROVE  CauseInv'
<1>1. UNCHANGED <<columns, delivered, expired>>
  BY DEF Crash, Stop, Exit, start
<1>2. ASSUME NEW q \in Proc  PROVE CycleGoesOn(q)
  <2>1. CASE Crash(p) \/ Exit(p) \/ start(p)
    <3>1. pc'[p] \in {"down", "idle"}
      BY <2>1 DEF Crash, Exit, start, ForgetCycle, IInv, TypeOK
    <3>2. q # p => UNCHANGED <<pc[q], batch[q], current[q]>>
      BY <2>1 DEF Crash, Exit, start, ForgetCycle, IInv, TypeOK
    <3> QED BY <3>1, <3>2 DEF CycleGoesOn, Ahead, Working
  <2>2. CASE Stop(p)
    BY <2>2 DEF Stop, CycleGoesOn, Ahead
  <2> QED BY <2>1, <2>2
<1> QED BY <1>1, <1>2, AsideCause

\* publish() settles: the event is delivered already, or its attempt has failed.
LEMMA SettleCause ==
  ASSUME IInv, CauseInv, NEW p \in Proc, PublishResolves(p) \/ PublishRejects(p)
  PROVE  CauseInv'
<1>1. UNCHANGED <<columns, delivered, expired, memory>>
  BY DEF PublishResolves, PublishRejects
<1>2. /\ pc[p] \in Working /\ pc'[p] \in Working \ {"publishing"}
      /\ \A q \in Proc \ {p} : pc'[q] = pc[q]
  BY DEF PublishResolves, PublishRejects, Working, IInv, TypeOK
<1>3. \A q \in Proc : CycleGoesOn(q)
  BY <1>1, <1>2 DEF CycleGoesOn, Ahead, memory
<1> QED BY <1>1, <1>3, AsideCause

\* Delivery: of a row no other cycle works on unless it has been tried.
LEMMA DeliverCause ==
  ASSUME IInv, CauseInv, NEW p \in Proc, Deliver(p)  PROVE CauseInv'
<1> DEFINE r == current[p]
<1>1. r \in Row /\ r \in batch[p] /\ pc[p] \in Working /\ pc[p] = "publishing"
  BY DEF Deliver, IInv, TypeOK, CycleShape, Working
<1>2. UNCHANGED <<columns, memory, expired>>
  BY DEF Deliver
<1>3. \A s \in Row \ {r} : delivered'[s] = delivered[s]
  BY DEF Deliver, IInv, TypeOK
<1>4. pc'[p] = "delivered" /\ \A q \in Proc \ {p} : pc'[q] = pc[q]
  BY DEF Deliver, IInv, TypeOK
<1>5. \A s \in Row : Tried(s)' <=> Tried(s)
  BY <1>2 DEF Tried, columns
<1>6. \A q \in Proc : pc'[q] \in Working <=> pc[q] \in Working
  BY <1>1, <1>4 DEF Working
<1>7. r \notin Ahead(p)' /\ Ahead(p)' \subseteq Ahead(p)
      /\ \A q \in Proc \ {p} : Ahead(q)' = Ahead(q)
  BY <1>1, <1>2, <1>4 DEF Ahead, memory
<1>8. AheadTried'
  <2> SUFFICES ASSUME NEW q \in Proc, pc[q] \in Working, NEW s \in Ahead(q)', delivered'[s]
               PROVE  Tried(s)
    BY <1>2, <1>5, <1>6 DEF AheadTried, Ahead, IInv, TypeOK, memory
  <2>1. s \in Ahead(q) /\ s \in batch[q] /\ s \in Row
    <3>1. Ahead(q)' \subseteq Ahead(q)
      BY <1>7
    <3> QED BY <3>1 DEF Ahead, IInv, TypeOK
  <2>2. CASE s = r
    <3>1. q # p
      BY <1>7, <2>2
    <3> QED BY <1>1, <2>1, <2>2, <3>1 DEF CauseInv, SharedTried
  <2>3. CASE s # r
    BY <1>3, <2>1, <2>3 DEF CauseInv, AheadTried
  <2> QED BY <2>2, <2>3
<1>9. SharedTried'
  <2> SUFFICES ASSUME NEW a \in Proc, NEW b \in Proc, a # b, pc[a] \in Working, pc[b] \in Working,
                      NEW s \in batch[a] \intersect batch[b]
               PROVE  Tried(s)
    BY <1>2, <1>5, <1>6 DEF SharedTried, IInv, TypeOK, memory
  <2> QED BY DEF CauseInv, SharedTried
<1>10. PendingTried'
  <2> SUFFICES ASSUME NEW s \in Row, status[s] = "pending", delivered'[s] \/ InWork(s)'
               PROVE  Tried(s)
    BY <1>2, <1>5 DEF PendingTried, columns
  <2>1. InWork(s)' => InWork(s)
    BY <1>2, <1>6 DEF InWork, memory
  <2>2. InWork(r)
    BY <1>1 DEF InWork
  <2> QED BY <1>3, <2>1, <2>2 DEF CauseInv, PendingTried
<1>11. TakeoverIsLate'
  <2>1. \A q \in Proc : pc'[q] = "claiming" => pc[q] = "claiming"
    BY <1>4
  <2> QED BY <1>2, <2>1 DEF CauseInv, TakeoverIsLate, Outlived, columns, memory
<1> QED BY <1>8, <1>9, <1>10, <1>11 DEF CauseInv

LEMMA RunCycleCause == ASSUME IInv, CauseInv, NEW p \in Proc, runCycle(p)  PROVE CauseInv'
<1>1. PICK B \in SUBSET Row : (\A r \in B : Claimable(r)) /\ batch' = [batch EXCEPT ![p] = B]
  BY DEF runCycle, OldestDue
<1>2. /\ UNCHANGED <<columns, delivered, expired, current>>
      /\ pc'[p] = "claiming" /\ \A q \in Proc \ {p} : pc'[q] = pc[q] /\ batch'[q] = batch[q]
  BY <1>1 DEF runCycle, IInv, TypeOK
<1>3. \A r \in Row : (Tried(r)' <=> Tried(r)) /\ (Outlived(r)' <=> Outlived(r))
  BY <1>2 DEF Tried, Outlived, columns
<1>4. \A q \in Proc : pc'[q] \in Working => q # p /\ pc[q] \in Working /\ Ahead(q)' = Ahead(q)
  BY <1>2 DEF Working, Ahead
<1>5. \A q \in Proc : Ahead(q) \subseteq Row /\ batch[q] \subseteq Row
  BY DEF Ahead, IInv, TypeOK
<1>6. AheadTried'
  BY <1>2, <1>3, <1>4, <1>5 DEF CauseInv, AheadTried
<1>7. SharedTried'
  BY <1>2, <1>3, <1>4, <1>5 DEF CauseInv, SharedTried
<1>8. PendingTried'
  <2>1. \A r \in Row : InWork(r)' => InWork(r)
    BY <1>2, <1>4 DEF InWork
  <2> QED BY <1>2, <1>3, <2>1 DEF CauseInv, PendingTried, columns
<1>9. TakeoverIsLate'
  <2>1. \A r \in B : r \in Row /\ (status[r] = "processing" => Outlived(r))
    BY <1>1 DEF Claimable, CauseInv, TakeoverIsLate, Outlived
  <2>2. batch'[p] = B
    BY <1>1 DEF IInv, TypeOK
  <2>3. ASSUME NEW q \in Proc, pc'[q] = "claiming", NEW r \in batch'[q], status'[r] = "processing"
        PROVE  Outlived(r)'
    <3>1. status[r] = "processing"
      BY <1>2, <2>3 DEF columns
    <3>2. CASE q = p
      BY <1>3, <2>1, <2>2, <2>3, <3>1, <3>2
    <3>3. CASE q # p
      BY <1>2, <1>3, <1>5, <2>3, <3>1, <3>3 DEF CauseInv, TakeoverIsLate
    <3> QED BY <3>2, <3>3
  <2> QED BY <1>2, <2>3 DEF CauseInv, TakeoverIsLate, columns
<1> QED BY <1>6, <1>7, <1>8, <1>9 DEF CauseInv

\* A claim lands, its cycle going on or not: what had been delivered or was in
\* work was tried, or the claim takes it over late and it counts as tried now.
LEMMA StampCause ==
  ASSUME IInv, CauseInv, NEW p \in Proc, NEW s \in Skew, Stamp(p, s),
         pc[p] = "claiming", pc'[p] \in {"idle", "publishing"}, batch'[p] \subseteq batch[p],
         UNCHANGED delivered,
         \A q \in Proc \ {p} : UNCHANGED <<pc[q], batch[q], current[q]>>
  PROVE  CauseInv'
<1>1. /\ \A r \in Row : Tried(r) => Tried(r)'
      /\ \A q \in Proc : batch[q] \subseteq Row
  BY DEF Stamp, Tried, IInv, TypeOK
<1>2. ASSUME NEW r \in batch[p], delivered[r] \/ InWork(r)  PROVE Tried(r)'
  <2>1. r \in Row /\ status[r] \in {"pending", "processing"}
    BY <1>1 DEF IInv, ClaimPending, Open
  <2>2. CASE status[r] = "pending"
    BY <1>1, <1>2, <2>1, <2>2 DEF CauseInv, PendingTried
  <2>3. CASE status[r] = "processing"
    <3>1. Outlived(r)
      BY <2>3 DEF CauseInv, TakeoverIsLate
    <3> QED BY <2>1, <2>3, <3>1 DEF Stamp, Outlived, Tried
  <2> QED BY <2>1, <2>2, <2>3
<1>3. \A q \in Proc \ {p} : Ahead(q)' = Ahead(q)
  BY DEF Ahead
<1>4. AheadTried'
  <2> SUFFICES ASSUME NEW q \in Proc, pc'[q] \in Working, NEW r \in Ahead(q)', delivered[r]
               PROVE  Tried(r)'
    BY DEF AheadTried
  <2>1. CASE q = p
    BY <1>2, <2>1 DEF Ahead
  <2>2. CASE q # p
    <3>1. pc[q] \in Working /\ r \in Ahead(q) /\ r \in Row
      BY <1>1, <1>3, <2>2 DEF Ahead
    <3> QED BY <1>1, <3>1 DEF CauseInv, AheadTried
  <2> QED BY <2>1, <2>2
<1>5. SharedTried'
  <2>1. ASSUME NEW q \in Proc \ {p}, pc'[q] \in Working, NEW r \in batch'[q] \intersect batch'[p]
        PROVE  Tried(r)'
    <3>1. InWork(r) /\ r \in batch[p]
      BY <2>1 DEF InWork
    <3> QED BY <1>2, <3>1
  <2>2. ASSUME NEW a \in Proc \ {p}, NEW b \in Proc \ {p}, a # b, pc'[a] \in Working, pc'[b] \in Working,
               NEW r \in batch'[a] \intersect batch'[b]
        PROVE  Tried(r)'
    BY <1>1, <2>2 DEF CauseInv, SharedTried
  <2> QED BY <2>1, <2>2 DEF SharedTried
<1>6. PendingTried'
  <2> SUFFICES ASSUME NEW r \in Row, status'[r] = "pending", delivered[r] \/ InWork(r)'
               PROVE  Tried(r)'
    BY DEF PendingTried
  <2>1. r \notin batch[p] /\ status[r] = "pending"
    BY DEF Stamp
  <2>2. InWork(r)' => InWork(r)
    BY <2>1 DEF InWork, Working
  <2> QED BY <1>1, <2>1, <2>2 DEF CauseInv, PendingTried
<1>7. TakeoverIsLate'
  <2>1. ASSUME NEW q \in Proc, pc'[q] = "claiming", NEW r \in batch'[q], status'[r] = "processing"
        PROVE  Outlived(r)'
    <3>1. q # p /\ pc[q] = "claiming" /\ r \in batch[q] /\ r \in Row
      BY <1>1, <2>1
    <3>2. r \notin batch[p]
      BY <3>1, OpenClaimsDisjoint
    <3>3. status[r] = "processing" /\ claimAge'[r] = claimAge[r]
      BY <2>1, <3>1, <3>2 DEF Stamp
    <3> QED BY <3>1, <3>3 DEF CauseInv, TakeoverIsLate, Outlived
  <2>2. ASSUME NEW r \in Row, status'[r] = "processing"  PROVE claimAge'[r] # Null
    <3>1. CASE r \in batch[p]
      BY <3>1, OutboxAssumption DEF Stamp
    <3>2. CASE r \notin batch[p]
      BY <2>2, <3>2 DEF Stamp, CauseInv, TakeoverIsLate
    <3> QED BY <3>1, <3>2
  <2> QED BY <2>1, <2>2 DEF TakeoverIsLate
<1> QED BY <1>4, <1>5, <1>6, <1>7 DEF CauseInv

LEMMA ClaimCause ==
  ASSUME IInv, CauseInv, NEW p \in Proc, ClaimCommits(p) \/ ClaimThrows(p)  PROVE CauseInv'
<1>1. CASE ClaimCommits(p)
  <2>1. PICK s \in Skew : Stamp(p, s)
    BY <1>1 DEF ClaimCommits
  <2>2. /\ pc[p] = "claiming" /\ pc'[p] \in {"idle", "publishing"} /\ batch'[p] \subseteq batch[p]
        /\ UNCHANGED delivered
        /\ \A q \in Proc \ {p} : UNCHANGED <<pc[q], batch[q], current[q]>>
    BY <1>1 DEF ClaimCommits, IInv, TypeOK
  <2> QED BY <2>1, <2>2, StampCause
<1>2. CASE ClaimThrows(p)
  <2>1. /\ pc[p] = "claiming" /\ pc'[p] = "idle" /\ batch'[p] \subseteq batch[p]
        /\ UNCHANGED delivered
        /\ \A q \in Proc \ {p} : UNCHANGED <<pc[q], batch[q], current[q]>>
    BY <1>2 DEF ClaimThrows, IInv, TypeOK
  <2>2. CASE UNCHANGED <<columns, expired>>
    <3>1. \A q \in Proc : CycleGoesOn(q)
      BY <2>1 DEF CycleGoesOn, Working, Ahead
    <3> QED BY <2>1, <2>2, <3>1, AsideCause
  <2>3. CASE \E s \in Skew : Stamp(p, s)
    BY <2>1, <2>3, StampCause
  <2> QED BY <1>2, <2>2, <2>3 DEF ClaimThrows
<1> QED BY <1>1, <1>2

\* An outcome's UPDATE: a row it reschedules has a recorded failure.
LEMMA OutcomeRow ==
  ASSUME IInv, NEW p \in Proc, UNCHANGED <<delivered, expired>>,
         \/ pc[p] = "marking" /\ UpdatePublished(p)
         \/ pc[p] \in {"failing", "failing_permanently"} /\ UpdateFailed(p)
         \/ UNCHANGED columns,
         NEW r \in Row
  PROVE  RowKept(r)
<1>1. ASSUME NEW new \in Status \ {"processing"}, NEW attempts \in Nat, NEW due,
             updateClaimed(p, new, attempts, due), pc[p] \in Working,
             attemptCount[r] > 0 => attempts > 0, new = "pending" => attempts > 0
      PROVE  RowKept(r)
  <2>1. CASE Claimed(p, r)
    <3>1. status'[r] = new /\ attemptCount'[r] = attempts /\ lockedBy[r] = Null
      BY <1>1, <2>1 DEF updateClaimed, Claimed
    <3> QED BY <1>1, <3>1 DEF RowKept, Tried
  <2>2. CASE ~Claimed(p, r)
    <3>1. UNCHANGED <<status[r], attemptCount[r], claimAge[r]>>
      BY <1>1, <2>2 DEF updateClaimed
    <3> QED BY <3>1 DEF RowKept, Outlived
  <2> QED BY <2>1, <2>2
<1>2. CASE pc[p] = "marking" /\ UpdatePublished(p)
  <2>1. current[p] \in Row /\ attemptCount[current[p]] \in Nat
    BY <1>2 DEF IInv, TypeOK, CycleShape, Working
  <2>2. CASE r = current[p]
    BY <1>1, <1>2, <2>1, <2>2 DEF UpdatePublished, Status, Working
  <2>3. CASE r # current[p]
    BY <1>2, <2>3 DEF UpdatePublished, updateClaimed, Claimed, RowKept, Outlived
  <2> QED BY <2>2, <2>3
<1>3. CASE pc[p] \in {"failing", "failing_permanently"} /\ UpdateFailed(p)
  <2>1. Attempt(p) \in Nat /\ Attempt(p) > 0 /\ pc[p] \in Working
    BY <1>3 DEF Attempt, IInv, TypeOK, CycleShape, Working
  <2> QED BY <1>1, <1>3, <2>1 DEF UpdateFailed, Status
<1>4. CASE UNCHANGED columns
  BY <1>4, AsideRow
<1> QED BY <1>2, <1>3, <1>4

LEMMA OutcomeCause ==
  ASSUME IInv, CauseInv, NEW p \in Proc,
         \/ markPublished(p) \/ markPublishedThrows(p)
         \/ recordFailure(p) \/ recordFailureThrows(p)
  PROVE  CauseInv'
<1>1. /\ UNCHANGED <<delivered, expired>>
      /\ \/ pc[p] = "marking" /\ UpdatePublished(p)
         \/ pc[p] \in {"failing", "failing_permanently"} /\ UpdateFailed(p)
         \/ UNCHANGED columns
  BY DEF markPublished, markPublishedThrows, recordFailure, recordFailureThrows
<1>2. \A r \in Row : RowKept(r)
  BY <1>1, OutcomeRow
<1>3. pc[p] \in Working \ {"publishing"}
  BY DEF markPublished, markPublishedThrows, recordFailure, recordFailureThrows, Working
<1>4. ASSUME NEW q \in Proc  PROVE CycleGoesOn(q)
  <2>1. CASE q # p
    <3>1. UNCHANGED <<pc[q], batch[q], current[q]>>
      BY <2>1 DEF markPublished, markPublishedThrows, recordFailure, recordFailureThrows,
                  NextEvent, ForgetCycle, memory, IInv, TypeOK
    <3> QED BY <3>1 DEF CycleGoesOn, Ahead
  <2>2. CASE q = p /\ markPublishedThrows(p)
    <3>1. pc'[p] \in Working \ {"publishing"} /\ UNCHANGED <<batch, current>>
      BY <2>2 DEF markPublishedThrows, memory, Working, IInv, TypeOK
    <3> QED BY <1>3, <2>2, <3>1 DEF CycleGoesOn, Ahead
  <2>3. CASE q = p /\ ForgetCycle(p, "idle")
    BY <2>3 DEF ForgetCycle, CycleGoesOn, Working, IInv, TypeOK
  <2>4. ASSUME q = p, NEW n \in batch[p] \ {current[p]},
               pc' = [pc EXCEPT ![p] = "publishing"],
               batch' = [batch EXCEPT ![p] = batch[p] \ {current[p]}]
        PROVE  CycleGoesOn(q)
    <3>1. pc'[p] = "publishing" /\ batch'[p] = batch[p] \ {current[p]}
      BY <2>4 DEF IInv, TypeOK
    <3> QED BY <1>3, <2>4, <3>1 DEF CycleGoesOn, Ahead, Working
  <2> QED BY <2>1, <2>2, <2>3, <2>4 DEF markPublished, recordFailure, recordFailureThrows, NextEvent
<1> QED BY <1>2, <1>4, KeepsCause

LEMMA NextCause == IInv /\ CauseInv /\ [Next]_vars => CauseInv'
<1> SUFFICES ASSUME IInv, CauseInv, [Next]_vars PROVE CauseInv'
  OBVIOUS
<1>1. CASE UNCHANGED vars \/ \E r \in Row : SoftDeleteOrRestore(r)
  <2>1. UNCHANGED <<columns, delivered, expired, pc, batch, current>>
    BY <1>1 DEF vars, SoftDeleteOrRestore, memory
  <2> QED BY <2>1, AsideCause DEF CycleGoesOn, Ahead
<1>2. ASSUME NEW p \in Proc, Cycle(p) \/ Failing(p) \/ Exit(p) \/ start(p)  PROVE CauseInv'
  BY <1>2, LifeCause, SettleCause, DeliverCause, RunCycleCause, ClaimCause, OutcomeCause
     DEF Cycle, Failing, Publishes, Records
<1> QED BY <1>1, <1>2, TickCause DEF Next

LEMMA InitCause == Init => CauseInv
BY DEF Init, CauseInv, AheadTried, SharedTried, PendingTried, TakeoverIsLate, InWork, Working

\* An event reaches its consumer again only if an attempt at it was recorded as
\* failed, or a claim of it outlived claimTimeoutMs (claimDueBatch's predicate).
THEOREM DuplicatesHaveACause == Spec => RedeliveryHasACause
<1>1. IInv /\ CauseInv =>
        \A p \in Proc : (pc[p] = "publishing" /\ pc'[p] = "delivered" /\ delivered[current[p]])
          => attemptCount[current[p]] > 0 \/ expired[current[p]]
  BY DEF IInv, CycleShape, CauseInv, AheadTried, Ahead, Tried, Working
<1> QED BY <1>1, InitCause, NextCause, Invariance, PTL DEF Spec, RedeliveryHasACause

-----------------------------------------------------------------------------
(* The dead letters that are reported and are none                           *)

Recording == {"failing", "failing_permanently"}

\* The row was published after all, and something has failed since the start: without
\* a takeover that is markPublished, applied, with its reply lost.
LostReply(r) == status[r] = "published" /\ faults > 0

Explained(r) == status[r] = "dead_letter" \/ expired[r] \/ LostReply(r)

\* process() logs a dead letter without looking at what recordFailure returned.
\* The row is one, unless a claim of it outlived claimTimeoutMs, or it is published
\* and there has been a fault (a markPublished whose reply was lost).
FalseReportHasACause == \A r \in Row : deadReported[r] => Explained(r)

\* A failed attempt whose row no other claim has taken still holds it, or it had
\* published it ...
FailedHolds ==
  \A p \in Proc : pc[p] \in Recording /\ current[p] \notin superseded[p] =>
    claimToken[current[p]] = lease[p] \/ LostReply(current[p])

\* ... and a claim is taken over only past its timeout.
LostLate == \A p \in Proc : \A r \in superseded[p] : expired[r]

RestIsEmpty == \A p \in Proc : batch[p] # {} => pc[p] \in Working \union {"claiming"}

ReportInv == FalseReportHasACause /\ FailedHolds /\ LostLate /\ RestIsEmpty

\* What is final stays, a timeout is not forgotten, and neither is a fault.
LEMMA FinalStays ==
  ASSUME IInv, [Next]_vars, NEW r \in Row, status[r] \in {"published", "dead_letter"}
  PROVE  status'[r] = status[r]
<1>1. [Contract!Next]_(Contract!vars)
  BY StepIsPromised
<1>2. Phase[r] = status[r]
  BY DEF Phase, Open
<1>3. Phase'[r] = Phase[r]
  <2>1. CASE UNCHANGED Contract!vars
    BY <2>1 DEF Contract!vars, Phase
  <2>2. ASSUME NEW e \in Row, Contract!Deliver(e) \/ Contract!Publish(e) \/ Contract!Fail(e)
        PROVE  Phase'[r] = Phase[r]
    <3>1. Phase' = Phase \/ (Phase[e] = "open" /\ \E o : Phase' = [Phase EXCEPT ![e] = o])
      BY <2>2 DEF Contract!Deliver, Contract!Publish, Contract!Fail, Phase
    <3>2. r # e \/ Phase' = Phase
      BY <1>2, <3>1
    <3> QED BY <3>1, <3>2 DEF Phase
  <2> QED BY <1>1, <2>1, <2>2 DEF Contract!Next
<1> QED BY <1>2, <1>3 DEF Phase, Open

LEMMA FaultsGrow ==
  ASSUME IInv, [Next]_vars
  PROVE  /\ faults > 0 => faults' > 0
         /\ \A r \in Row : expired[r] => expired'[r]
<1>1. faults \in Nat
  BY OutboxAssumption DEF IInv, TypeOK
<1>2. UNCHANGED faults \/ Fault
  BY DEF Next, Cycle, Publishes, Records, Failing, Tick, runCycle, ClaimCommits, ClaimThrows, Deliver,
         PublishResolves, PublishRejects, markPublished, markPublishedThrows, recordFailure,
         recordFailureThrows, Crash, Stop, Exit, start, SoftDeleteOrRestore, vars
<1>3. UNCHANGED expired \/ \E p \in Proc, s \in Skew : Stamp(p, s)
  BY DEF Next, Cycle, Publishes, Records, Failing, Tick, runCycle, ClaimCommits, ClaimThrows, Deliver,
         PublishResolves, PublishRejects, markPublished, markPublishedThrows, recordFailure,
         recordFailureThrows, Crash, Stop, Exit, start, SoftDeleteOrRestore, vars
<1>4. \A r \in Row : expired[r] => expired'[r]
  BY <1>3 DEF Stamp
<1> QED BY <1>1, <1>2, <1>4 DEF Fault

LEMMA ExplainedStays ==
  ASSUME IInv, [Next]_vars, NEW r \in Row
  PROVE  Explained(r) => Explained(r)'
BY FinalStays, FaultsGrow DEF Explained, LostReply

\* A failed attempt goes on as it is, its row untouched.
StillHolds(p) ==
  pc'[p] \in Recording /\ current'[p] \notin superseded'[p] =>
    \/ /\ pc[p] \in Recording /\ current[p] \notin superseded[p]
       /\ UNCHANGED <<current[p], lease[p]>>
       /\ claimToken[current[p]] = lease[p] => claimToken'[current[p]] = claimToken[current[p]]
    \/ claimToken'[current'[p]] = lease'[p]
    \/ LostReply(current[p])'

LEMMA KeepsReport ==
  ASSUME IInv, ReportInv, [Next]_vars,
         \A r \in Row : deadReported'[r] => deadReported[r] \/ Explained(r)',
         \A p \in Proc : StillHolds(p),
         \A p \in Proc : \A r \in superseded'[p] : r \in superseded[p] \/ expired'[r],
         \A p \in Proc : batch'[p] # {} => pc'[p] \in Working \union {"claiming"}
  PROVE  ReportInv'
<1>1. FalseReportHasACause'
  BY ExplainedStays DEF ReportInv, FalseReportHasACause
<1>2. LostLate'
  <2>1. \A p \in Proc : superseded[p] \subseteq Row
    BY DEF IInv, TypeOK
  <2> QED BY <2>1, FaultsGrow DEF ReportInv, LostLate
<1>3. FailedHolds'
  <2> SUFFICES ASSUME NEW p \in Proc, pc'[p] \in Recording, current'[p] \notin superseded'[p]
               PROVE  claimToken'[current'[p]] = lease'[p] \/ LostReply(current[p])'
    BY DEF FailedHolds
  <2>1. ASSUME pc[p] \in Recording, current[p] \notin superseded[p], UNCHANGED <<current[p], lease[p]>>,
               claimToken[current[p]] = lease[p] => claimToken'[current[p]] = claimToken[current[p]]
        PROVE  claimToken'[current'[p]] = lease'[p] \/ LostReply(current[p])'
    <3>1. current[p] \in Row
      BY <2>1 DEF IInv, TypeOK, CycleShape, Working, Recording
    <3>2. LostReply(current[p]) => status'[current[p]] = "published" /\ faults' > 0
      BY <3>1, FinalStays, FaultsGrow DEF LostReply
    <3>3. claimToken[current[p]] = lease[p] \/ LostReply(current[p])
      BY <2>1 DEF ReportInv, FailedHolds
    <3> QED BY <2>1, <3>2, <3>3 DEF LostReply
  <2> QED BY <2>1 DEF StillHolds
<1> QED BY <1>1, <1>2, <1>3 DEF ReportInv, RestIsEmpty

\* Steps that write no row and report nothing; only a cycle's end forgets a batch.
LEMMA QuietReport ==
  ASSUME IInv, ReportInv, [Next]_vars, UNCHANGED <<status, claimToken, expired, deadReported>>,
         NEW p \in Proc,
         \A q \in Proc \ {p} : UNCHANGED <<pc[q], lease[q], batch[q], current[q], superseded[q]>>,
         \/ pc'[p] \in {"idle", "down"} /\ batch'[p] = {} /\ superseded'[p] \subseteq superseded[p]
         \/ pc'[p] = "claiming" /\ superseded'[p] \subseteq superseded[p]
         \/ /\ pc'[p] \in Working \ Recording /\ superseded'[p] \subseteq superseded[p]
         \/ UNCHANGED <<pc[p], lease[p], batch[p], current[p], superseded[p]>>
         \/ PublishRejects(p)
  PROVE  ReportInv'
<1>1. ASSUME NEW q \in Proc  PROVE StillHolds(q)
  <2>1. CASE UNCHANGED <<pc[q], lease[q], batch[q], current[q], superseded[q]>>
    BY <2>1 DEF StillHolds
  <2>2. CASE pc'[q] \notin Recording
    BY <2>2 DEF StillHolds
  <2>3. CASE q = p /\ PublishRejects(p)
    <3>1. /\ pc[p] \in {"publishing", "delivered"}
          /\ UNCHANGED <<current, lease, superseded>>
      BY <2>3 DEF PublishRejects, memory
    <3>2. current[p] \notin superseded[p] => claimToken[current[p]] = lease[p]
      BY <3>1 DEF IInv, LeaseIntact, CycleShape, Working
    <3> QED BY <2>3, <3>1, <3>2 DEF StillHolds
  <2> QED BY <2>1, <2>2, <2>3 DEF Recording, Working
<1>2. PublishRejects(p) => pc'[p] \in Working /\ UNCHANGED <<batch, superseded>>
  BY DEF PublishRejects, memory, Working, IInv, TypeOK
<1>3. \A q \in Proc : superseded'[q] \subseteq superseded[q]
  BY <1>2
<1>4. \A q \in Proc : batch'[q] # {} => pc'[q] \in Working \union {"claiming"}
  BY <1>2 DEF ReportInv, RestIsEmpty
<1> QED BY <1>1, <1>3, <1>4, KeepsReport

LEMMA LifeReport ==
  ASSUME IInv, ReportInv, [Next]_vars, NEW p \in Proc,
         \/ Crash(p) \/ Stop(p) \/ Exit(p) \/ start(p) \/ runCycle(p)
         \/ Deliver(p) \/ PublishResolves(p) \/ PublishRejects(p)
  PROVE  ReportInv'
<1>1. UNCHANGED <<status, claimToken, expired, deadReported>>
  BY DEF Crash, Stop, Exit, start, runCycle, Deliver, PublishResolves, PublishRejects, columns
<1>2. \A q \in Proc \ {p} : UNCHANGED <<pc[q], lease[q], batch[q], current[q], superseded[q]>>
  BY DEF Crash, Stop, Exit, start, runCycle, Deliver, PublishResolves, PublishRejects, ForgetCycle,
         memory, IInv, TypeOK
<1>3. CASE Crash(p) \/ Exit(p)
  <2>1. pc'[p] = "down" /\ batch'[p] = {} /\ superseded'[p] = {}
    BY <1>3 DEF Crash, Exit, ForgetCycle, IInv, TypeOK
  <2> QED BY <1>1, <1>2, <2>1, QuietReport
<1>4. CASE start(p)
  <2>1. pc'[p] = "idle" /\ batch'[p] = batch[p] /\ superseded' = superseded /\ pc[p] = "down"
    BY <1>4 DEF start, IInv, TypeOK
  <2>2. batch[p] = {}
    BY <2>1 DEF ReportInv, RestIsEmpty, Working
  <2> QED BY <1>1, <1>2, <2>1, <2>2, QuietReport
<1>5. CASE runCycle(p)
  <2>1. pc'[p] = "claiming" /\ superseded' = superseded
    BY <1>5 DEF runCycle, IInv, TypeOK
  <2> QED BY <1>1, <1>2, <2>1, QuietReport
<1>6. CASE Deliver(p) \/ PublishResolves(p)
  <2>1. pc'[p] \in Working \ Recording /\ superseded' = superseded
    BY <1>6 DEF Deliver, PublishResolves, Working, Recording, IInv, TypeOK
  <2> QED BY <1>1, <1>2, <2>1, QuietReport
<1>7. CASE Stop(p)
  <2>1. UNCHANGED <<pc[p], lease[p], batch[p], current[p], superseded[p]>>
    BY <1>7 DEF Stop
  <2> QED BY <1>1, <1>2, <2>1, QuietReport
<1>8. CASE PublishRejects(p)
  BY <1>1, <1>2, <1>8, QuietReport
<1> QED BY <1>3, <1>4, <1>5, <1>6, <1>7, <1>8

\* A claim lands: a row it takes from a running cycle was being processed, for
\* longer than claimTimeoutMs.
LEMMA StampReport ==
  ASSUME IInv, CauseInv, ReportInv, [Next]_vars, NEW p \in Proc, NEW s \in Skew, Stamp(p, s),
         pc[p] = "claiming", pc'[p] \in {"idle", "publishing"}, superseded' = Supersede(p, {}),
         pc'[p] = "idle" => batch'[p] = {}, UNCHANGED deadReported,
         \A q \in Proc \ {p} : UNCHANGED <<pc[q], lease[q], batch[q], current[q]>>
  PROVE  ReportInv'
<1>1. superseded'[p] = {}
      /\ \A q \in Proc \ {p} : superseded'[q] = superseded[q] \union (batch[q] \intersect batch[p])
  BY DEF Supersede
<1>2. \A r \in batch[p] : r \in Row /\ status[r] \in Open /\ (status[r] = "processing" => expired'[r])
  BY DEF IInv, TypeOK, ClaimPending, CauseInv, TakeoverIsLate, Outlived, Stamp
<1>3. ASSUME NEW q \in Proc \ {p}, NEW r \in batch[q] \intersect batch[p]
      PROVE  r \in superseded[q] \/ expired'[r]
  <2>1. pc[q] \in Working \union {"claiming"}
    BY DEF ReportInv, RestIsEmpty
  <2>2. pc[q] # "claiming"
    BY OpenClaimsDisjoint, <1>2
  <2>3. CASE r \notin superseded[q]
    <3>1. CASE r = current[q] => pc[q] \in {"publishing", "delivered", "marking"}
      BY <1>2, <2>1, <2>2, <2>3, <3>1 DEF IInv, LeaseIntact
    <3>2. CASE r = current[q] /\ pc[q] \in Recording
      <4>1. claimToken[r] = lease[q] \/ status[r] = "published"
        BY <2>3, <3>2 DEF ReportInv, FailedHolds, LostReply
      <4>2. lease[q] # Null
        BY <2>1 DEF IInv, CycleShape
      <4>3. status[r] = "processing"
        BY <1>2, <4>1, <4>2 DEF IInv, TokenShape, Open
      <4> QED BY <1>2, <4>3
    <3> QED BY <2>1, <2>2, <3>1, <3>2 DEF Working, Recording
  <2> QED BY <2>3
<1>4. \A q \in Proc : \A r \in superseded'[q] : r \in superseded[q] \/ expired'[r]
  BY <1>1, <1>3
<1>5. ASSUME NEW q \in Proc  PROVE StillHolds(q)
  <2>1. CASE q = p
    BY <2>1 DEF StillHolds, Recording
  <2>2. CASE q # p /\ pc[q] \in Recording /\ current[q] \notin superseded'[q]
    <3>1. current[q] \in Row /\ current[q] \notin batch[p] /\ current[q] \notin superseded[q]
      BY <1>1, <2>2 DEF IInv, TypeOK, CycleShape, Working, Recording
    <3>2. claimToken'[current[q]] = claimToken[current[q]]
      BY <3>1 DEF Stamp
    <3> QED BY <2>2, <3>1, <3>2 DEF StillHolds
  <2> QED BY <2>1, <2>2 DEF StillHolds
<1>6. \A q \in Proc : batch'[q] # {} => pc'[q] \in Working \union {"claiming"}
  BY DEF ReportInv, RestIsEmpty, Working
<1> QED BY <1>4, <1>5, <1>6, KeepsReport

LEMMA ClaimReport ==
  ASSUME IInv, CauseInv, ReportInv, [Next]_vars, NEW p \in Proc, ClaimCommits(p) \/ ClaimThrows(p)
  PROVE  ReportInv'
<1>1. CASE ClaimCommits(p)
  <2>1. PICK s \in Skew : Stamp(p, s)
    BY <1>1 DEF ClaimCommits
  <2>2. /\ pc[p] = "claiming" /\ pc'[p] = "publishing" /\ superseded' = Supersede(p, {})
        /\ UNCHANGED deadReported
        /\ \A q \in Proc \ {p} : UNCHANGED <<pc[q], lease[q], batch[q], current[q]>>
    BY <1>1 DEF ClaimCommits, IInv, TypeOK
  <2> QED BY <2>1, <2>2, StampReport
<1>2. CASE ClaimThrows(p)
  <2>1. /\ pc[p] = "claiming" /\ pc'[p] = "idle" /\ batch'[p] = {}
        /\ UNCHANGED deadReported
        /\ \A q \in Proc \ {p} : UNCHANGED <<pc[q], lease[q], batch[q], current[q]>>
    BY <1>2 DEF ClaimThrows, IInv, TypeOK
  <2>2. CASE superseded' = [superseded EXCEPT ![p] = {}] /\ UNCHANGED <<columns, expired>>
    <3>1. /\ superseded'[p] = {} /\ \A q \in Proc \ {p} : superseded'[q] = superseded[q]
      BY <2>2 DEF IInv, TypeOK
    <3> QED BY <2>1, <2>2, <3>1, QuietReport DEF columns
  <2>3. ASSUME superseded' = Supersede(p, {}), NEW s \in Skew, Stamp(p, s)
        PROVE  ReportInv'
    BY <2>1, <2>3, StampReport
  <2> QED BY <1>2, <2>2, <2>3 DEF ClaimThrows
<1> QED BY <1>1, <1>2

\* An outcome is written by the attempt that holds the row, or not at all.
LEMMA OutcomeTokens ==
  ASSUME IInv, NEW p \in Proc, pc[p] \in Working,
         \/ UNCHANGED columns
         \/ \E new, attempts, due : updateClaimed(p, new, attempts, due),
         NEW q \in Proc \ {p}, pc[q] \in Working, claimToken[current[q]] = lease[q]
  PROVE  claimToken'[current[q]] = claimToken[current[q]]
<1>1. current[q] \in Row /\ lease[q] # lease[p]
  BY DEF IInv, TypeOK, CycleShape, LeasesDiffer, Working
<1> QED BY <1>1 DEF updateClaimed, Claimed, columns

LEMMA OutcomeReport ==
  ASSUME IInv, ReportInv, [Next]_vars, NEW p \in Proc,
         \/ markPublished(p) \/ markPublishedThrows(p)
         \/ recordFailure(p) \/ recordFailureThrows(p)
  PROVE  ReportInv'
<1> DEFINE row == current[p]
<1>1. pc[p] \in {"marking"} \union Recording /\ pc[p] \in Working /\ row \in Row /\ row \in batch[p]
  BY DEF markPublished, markPublishedThrows, recordFailure, recordFailureThrows, Working, Recording,
         IInv, TypeOK, CycleShape
<1>2. UNCHANGED columns \/ \E new, attempts, due : updateClaimed(p, new, attempts, due)
  BY DEF markPublished, markPublishedThrows, recordFailure, recordFailureThrows, UpdatePublished,
         UpdateFailed
<1>3. \A q \in Proc \ {p} : UNCHANGED <<pc[q], lease[q], batch[q], current[q], superseded[q]>>
  BY DEF markPublished, markPublishedThrows, recordFailure, recordFailureThrows, NextEvent,
         ForgetCycle, memory, IInv, TypeOK
<1>4. superseded'[p] \subseteq superseded[p]
  BY DEF markPublished, markPublishedThrows, recordFailure, recordFailureThrows, NextEvent,
         ForgetCycle, memory, IInv, TypeOK
<1>5. batch'[p] # {} => pc'[p] \in Working
  <2>1. CASE markPublishedThrows(p)
    BY <2>1 DEF markPublishedThrows, Working, IInv, TypeOK
  <2>2. CASE ForgetCycle(p, "idle")
    BY <2>2 DEF ForgetCycle, IInv, TypeOK
  <2>3. CASE pc' = [pc EXCEPT ![p] = "publishing"]
    BY <2>3 DEF Working, IInv, TypeOK
  <2> QED BY <2>1, <2>2, <2>3 DEF markPublished, recordFailure, recordFailureThrows, NextEvent
<1>6. ASSUME NEW q \in Proc  PROVE StillHolds(q)
  <2>1. CASE q # p
    BY <1>1, <1>2, <1>3, <2>1, OutcomeTokens DEF StillHolds, Working, Recording
  <2>2. CASE q = p /\ markPublishedThrows(p)
    <3>1. /\ UNCHANGED <<current, lease, superseded>> /\ pc[p] = "marking"
          /\ UpdatePublished(p) \/ UNCHANGED columns
          /\ faults' > 0
      BY <2>2, OutboxAssumption DEF markPublishedThrows, memory, Fault, IInv, TypeOK
    <3>2. row \notin superseded[p] => claimToken[row] = lease[p]
      BY <1>1, <3>1 DEF IInv, LeaseIntact
    <3>3. CASE UNCHANGED columns
      BY <2>2, <3>1, <3>2, <3>3 DEF StillHolds, columns
    <3>4. CASE UpdatePublished(p)
      <4>1. claimToken[row] = lease[p] => status'[row] = "published"
        BY <1>1, <3>4 DEF UpdatePublished, updateClaimed, Claimed
      <4> QED BY <2>2, <3>1, <3>2, <4>1 DEF StillHolds, LostReply
    <3> QED BY <3>1, <3>3, <3>4
  <2>3. CASE q = p /\ ~markPublishedThrows(p)
    <3>1. pc'[p] \in {"idle", "publishing"}
      BY <2>3 DEF markPublished, recordFailure, recordFailureThrows, NextEvent, ForgetCycle, IInv, TypeOK
    <3> QED BY <2>3, <3>1 DEF StillHolds, Recording
  <2> QED BY <2>1, <2>2, <2>3
<1>7. ASSUME NEW r \in Row, deadReported'[r]  PROVE deadReported[r] \/ Explained(r)'
  <2>1. CASE ~recordFailure(p)
    BY <1>7, <2>1 DEF markPublished, markPublishedThrows, recordFailureThrows
  <2>2. CASE recordFailure(p) /\ (r # row \/ ~IsDeadLetter(p))
    <3>1. \A d \in [Row -> BOOLEAN] : \A b : b = FALSE => [d EXCEPT ![row] = @ \/ b][row] = d[row]
      BY <1>1
    <3> QED BY <1>1, <1>7, <2>2, <3>1 DEF recordFailure, IInv, TypeOK
  <2>3. CASE recordFailure(p) /\ r = row /\ IsDeadLetter(p)
    <3>1. CASE row \in superseded[p]
      BY <1>1, <2>3, <3>1, FaultsGrow DEF ReportInv, LostLate, Explained
    <3>2. CASE row \notin superseded[p] /\ LostReply(row)
      <4>1. Explained(r)
        BY <2>3, <3>2 DEF Explained
      <4> QED BY <4>1, ExplainedStays
    <3>3. CASE claimToken[row] = lease[p]
      <4>1. updateClaimed(p, "dead_letter", Attempt(p), Null)
        BY <2>3 DEF recordFailure, UpdateFailed
      <4> QED BY <1>1, <2>3, <3>3, <4>1 DEF updateClaimed, Claimed, Explained
    <3> QED BY <2>3, <3>1, <3>2, <3>3 DEF recordFailure, ReportInv, FailedHolds, Recording
  <2> QED BY <2>1, <2>2, <2>3
<1>8. \A q \in Proc : superseded'[q] \subseteq superseded[q]
  BY <1>3, <1>4
<1>9. \A q \in Proc : batch'[q] # {} => pc'[q] \in Working \union {"claiming"}
  BY <1>3, <1>5 DEF ReportInv, RestIsEmpty
<1> QED BY <1>6, <1>7, <1>8, <1>9, KeepsReport

LEMMA NextReport == IInv /\ CauseInv /\ ReportInv /\ [Next]_vars => ReportInv'
<1> SUFFICES ASSUME IInv, CauseInv, ReportInv, [Next]_vars PROVE ReportInv'
  OBVIOUS
<1>1. CASE Tick \/ UNCHANGED vars \/ \E r \in Row : SoftDeleteOrRestore(r)
  <2>1. UNCHANGED <<status, claimToken, expired, deadReported, pc, lease, batch, current, superseded>>
    BY <1>1 DEF Tick, vars, SoftDeleteOrRestore, columns, memory
  <2> QED BY <2>1, KeepsReport DEF StillHolds, ReportInv, RestIsEmpty
<1>2. ASSUME NEW p \in Proc, Cycle(p) \/ Failing(p) \/ Exit(p) \/ start(p)  PROVE ReportInv'
  BY <1>2, LifeReport, ClaimReport, OutcomeReport DEF Cycle, Failing, Publishes, Records
<1> QED BY <1>1, <1>2 DEF Next

\* A dead letter is reported that is none only if a claim of the row outlived
\* claimTimeoutMs, or the row had been published and the reply to that write was
\* lost (process: "dead-lettered", whatever recordFailure returned).
THEOREM FalseReportsHaveACause == Spec => []FalseReportHasACause
<1>1. Init => ReportInv
  BY DEF Init, ReportInv, FalseReportHasACause, FailedHolds, LostLate, RestIsEmpty, Recording
<1>2. ReportInv => FalseReportHasACause
  BY DEF ReportInv
<1> QED BY <1>1, <1>2, InitCause, NextCause, NextReport, Invariance, PTL DEF Spec

-----------------------------------------------------------------------------
(* What an open row still has ahead of it                                    *)

\* No open row is stranded.  It has an attempt left; unless it is soft-deleted, a
\* poll can claim it, or what keeps it from being claimed is an instant that comes
\* as time passes; and a lock on it is that of a replica which is claiming now.
\* (claimDueBatch's predicate, and what updateClaimed leaves in the columns.)
OpenRowsComeBack ==
  \A r \in Row : status[r] \in Open =>
    /\ attemptCount[r] < MaxAttempts
    /\ \/ deleted[r] \/ Claimable(r)
       \/ nextAttemptAt[r] \in Int /\ nextAttemptAt[r] > 0
       \/ status[r] = "processing" /\ claimAge[r] \in Int /\ claimAge[r] <= ClaimTimeout
    /\ lockedBy[r] # Null => pc[lockedBy[r]] = "claiming"

\* An open row is due some time, and has not used up its attempts.
DueInv == \A r \in Row : status[r] \in Open => nextAttemptAt[r] # Null /\ attemptCount[r] < MaxAttempts

LEMMA OutcomeDue ==
  ASSUME IInv, DueInv, NEW p \in Proc,
         \/ UNCHANGED columns
         \/ pc[p] = "marking" /\ UpdatePublished(p)
         \/ pc[p] \in Recording /\ UpdateFailed(p)
  PROVE  DueInv'
<1>1. CASE UNCHANGED columns
  BY <1>1 DEF DueInv, columns
<1>2. ASSUME NEW new \in {"published", "dead_letter", "pending"}, NEW attempts, NEW due,
             updateClaimed(p, new, attempts, due),
             new = "pending" => due # Null /\ attempts < MaxAttempts
      PROVE  DueInv'
  BY <1>2 DEF DueInv, updateClaimed, Open
<1>3. CASE UpdatePublished(p)
  BY <1>2, <1>3 DEF UpdatePublished
<1>4. CASE pc[p] \in Recording /\ UpdateFailed(p)
  <2>1. CASE updateClaimed(p, "dead_letter", Attempt(p), Null)
    BY <1>2, <2>1
  <2>2. ASSUME ~IsDeadLetter(p), NEW due \in nextOutboxAttemptAt(Attempt(p)),
               updateClaimed(p, "pending", Attempt(p), due)
        PROVE  DueInv'
    <3>1. due # Null
      BY OutboxAssumption DEF nextOutboxAttemptAt
    <3>2. Attempt(p) < MaxAttempts
      BY <1>4, <2>2, OutboxAssumption DEF IsDeadLetter, Attempt, IInv, TypeOK, CycleShape, Working, Recording
    <3> QED BY <1>2, <2>2, <3>1, <3>2
  <2> QED BY <1>4, <2>1, <2>2 DEF UpdateFailed
<1> QED BY <1>1, <1>3, <1>4

LEMMA NextDue == IInv /\ DueInv /\ [Next]_vars => DueInv'
<1> SUFFICES ASSUME IInv, DueInv, [Next]_vars PROVE DueInv'
  OBVIOUS
<1>1. CASE Tick
  BY <1>1, OutboxAssumption DEF Tick, DueInv, IInv, TypeOK, Ticks
<1>2. CASE UNCHANGED columns
  BY <1>2 DEF DueInv, columns
<1>3. ASSUME NEW p \in Proc, NEW s \in Skew, Stamp(p, s), pc[p] = "claiming"  PROVE DueInv'
  BY <1>3 DEF DueInv, Stamp, IInv, ClaimPending
<1>4. ASSUME NEW p \in Proc,
             \/ markPublished(p) \/ markPublishedThrows(p)
             \/ recordFailure(p) \/ recordFailureThrows(p)
      PROVE  DueInv'
  BY <1>4, OutcomeDue DEF markPublished, markPublishedThrows, recordFailure, recordFailureThrows, Recording
<1>5. ASSUME NEW p \in Proc, ClaimCommits(p) \/ ClaimThrows(p)  PROVE DueInv'
  BY <1>2, <1>3, <1>5 DEF ClaimCommits, ClaimThrows, columns
<1>6. ASSUME NEW p \in Proc,
             \/ runCycle(p) \/ Deliver(p) \/ PublishResolves(p) \/ PublishRejects(p)
             \/ Crash(p) \/ Stop(p) \/ Exit(p) \/ start(p)
      PROVE  UNCHANGED columns
  BY <1>6 DEF runCycle, Deliver, PublishResolves, PublishRejects, Crash, Stop, Exit, start
<1>7. CASE UNCHANGED vars \/ \E r \in Row : SoftDeleteOrRestore(r)
  BY <1>2, <1>7 DEF vars, SoftDeleteOrRestore
<1> QED BY <1>1, <1>2, <1>4, <1>5, <1>6, <1>7 DEF Next, Cycle, Failing, Publishes, Records

\* Whatever crashed and whichever reply was lost, an open row waits for the clock
\* or for a poll, and for nothing else (claimDueBatch, recordFailure).
THEOREM NoRowIsStranded == Spec => []OpenRowsComeBack
<1>1. Init => DueInv
  BY OutboxAssumption DEF Init, DueInv
<1>2. IInv /\ CauseInv /\ DueInv => OpenRowsComeBack
  <2> SUFFICES ASSUME IInv, CauseInv, DueInv, NEW r \in Row, status[r] \in Open
               PROVE  /\ attemptCount[r] < MaxAttempts
                      /\ \/ deleted[r] \/ Claimable(r)
                         \/ nextAttemptAt[r] \in Int /\ nextAttemptAt[r] > 0
                         \/ status[r] = "processing" /\ claimAge[r] \in Int /\ claimAge[r] <= ClaimTimeout
                      /\ lockedBy[r] # Null => pc[lockedBy[r]] = "claiming"
    BY DEF OpenRowsComeBack
  <2>1. nextAttemptAt[r] \in Int /\ attemptCount[r] < MaxAttempts
    BY DEF DueInv, IInv, TypeOK, Ticks
  <2>2. status[r] = "processing" => claimAge[r] \in Int
    BY DEF CauseInv, TakeoverIsLate, IInv, TypeOK, Ticks
  <2>3. lockedBy[r] # Null => pc[lockedBy[r]] = "claiming"
    BY DEF IInv, TypeOK, LocksMatch
  <2>4. ClaimTimeout \in Int /\ Null \notin Int
    BY OutboxAssumption
  <2> QED BY <2>1, <2>2, <2>3, <2>4 DEF Claimable, Open
<1> QED BY <1>1, <1>2, InitCause, NextCause, NextDue, Invariance, PTL DEF Spec
=============================================================================
