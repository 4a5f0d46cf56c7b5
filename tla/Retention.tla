------------------------------ MODULE Retention ------------------------------
(***************************************************************************)
(* Rows whose bytes are objects in a bucket, and the sweep that expires both. *)
(* ObjectStorageService puts and removes the objects with a timeout after     *)
(* which a request may still take effect; RetentionSweepMetrics reports what  *)
(* each replica's sweep has done.  The rows and the sweep are the consuming   *)
(* service's, modelled as the two services' documentation has them used: an   *)
(* upload stores the object and then the row, a sweep removes the object and  *)
(* then marks the row.                                                       *)
(*                                                                         *)
(* Assumed of the service: a key is never used again once its row is due, and *)
(* a row comes due long after its last upload has been answered or lost.      *)
(***************************************************************************)
EXTENDS Naturals, FiniteSets

CONSTANTS
  Row,          \* the rows, each with its object's key
  Proc,         \* the replicas
  Scheduled,    \* those whose cron is registered
  Threshold,    \* the age of the gauge at which the alert fires
  Absent,       \* no series, no row in hand
  MaxFaults     \* bound: failed requests, sweeps that throw, crashes

ASSUME RetentionAssumption ==
  /\ Scheduled \subseteq Proc
  /\ Threshold \in Nat /\ MaxFaults \in Nat
  /\ Absent \notin Row /\ Absent \notin Nat

VARIABLES
  row,          \* each row in the database
  object,       \* the bucket holds the row's object
  upload,       \* each row: where its upload stands
  late,         \* requests given up on that may still take effect
  pc,           \* each replica's sweep
  todo, current, removed,
                \* the sweep's rows to come, row in hand and number expired
  lastSuccess,  \* how long ago the replica's gauge was set
  rows,         \* the replica's counter
  faults,
  begun,        \* history: the rows that were due when the sweep began
  refused       \* history: those of them it failed to remove

storage == <<object, upload, late>>
sweeps  == <<pc, todo, current, removed>>
metrics == <<lastSuccess, rows>>
history == <<begun, refused>>
vars    == <<row, storage, sweeps, metrics, faults, history>>

Request  == {"put", "delete"} \X Row
Age      == 0..(Threshold + 1)
Sweeping == {"sweeping", "removing", "deleted", "marking"}

TypeOK ==
  /\ row \in [Row -> {"none", "live", "due", "purged"}]
  /\ object \in [Row -> BOOLEAN]
  /\ upload \in [Row -> {"none", "sending", "landed", "stored"}]
  /\ late \in SUBSET Request
  /\ pc \in [Proc -> {"down", "idle"} \union Sweeping]
  /\ todo \in [Proc -> SUBSET Row]
  /\ current \in [Proc -> Row \union {Absent}]
  /\ removed \in [Proc -> Nat]
  /\ lastSuccess \in [Proc -> Age \union {Absent}]
  /\ rows \in [Proc -> Nat]
  /\ faults \in 0..MaxFaults
  /\ begun \in [Proc -> SUBSET Row]
  /\ refused \in [Proc -> SUBSET Row]

Init ==
  /\ row = [r \in Row |-> "none"]
  /\ object = [r \in Row |-> FALSE]
  /\ upload = [r \in Row |-> "none"]
  /\ late = {}
  /\ pc = [p \in Proc |-> "down"]
  /\ todo = [p \in Proc |-> {}]
  /\ current = [p \in Proc |-> Absent]
  /\ removed = [p \in Proc |-> 0]
  /\ lastSuccess = [p \in Proc |-> Absent]
  /\ rows = [p \in Proc |-> 0]
  /\ faults = 0
  /\ begun = [p \in Proc |-> {}]
  /\ refused = [p \in Proc |-> {}]

Fault == faults < MaxFaults /\ faults' = faults + 1

-----------------------------------------------------------------------------
(* Uploads                                                                  *)

\* put(): a first upload or one that overwrites.
put(r) ==
  /\ upload[r] = "none"
  /\ row[r] \in {"none", "live"}
  /\ upload' = [upload EXCEPT ![r] = "sending"]
  /\ UNCHANGED <<row, object, late, sweeps, metrics, faults, history>>

\* The bucket stores the object; the answer is on its way.
PutLands(r) ==
  /\ upload[r] = "sending"
  /\ object' = [object EXCEPT ![r] = TRUE]
  /\ upload' = [upload EXCEPT ![r] = "landed"]
  /\ UNCHANGED <<row, late, sweeps, metrics, faults, history>>

PutResolves(r) ==
  /\ upload[r] = "landed"
  /\ upload' = [upload EXCEPT ![r] = "stored"]
  /\ UNCHANGED <<row, object, late, sweeps, metrics, faults, history>>

\* A request given up on before it took effect is late; one that has, is not.
GivenUp(request, underWay) == IF underWay THEN late \union {request} ELSE late

\* Slip: an upload's error is logged and swallowed.
Slip_SwallowError(r) ==
  /\ upload[r] \in {"sending", "landed"}
  /\ upload' = [upload EXCEPT ![r] = "stored"]
  /\ late' = GivenUp(<<"put", r>>, upload[r] = "sending")
  /\ Fault
  /\ UNCHANGED <<row, object, sweeps, metrics, history>>

\* put()'s catch: the caller gets ServiceUnavailableException, stored or not.
PutRejects(r) ==
  /\ upload[r] \in {"sending", "landed"}
  /\ upload' = [upload EXCEPT ![r] = "none"]
  /\ late' = GivenUp(<<"put", r>>, upload[r] = "sending")
  /\ Fault
  /\ UNCHANGED <<row, object, sweeps, metrics, history>>

\* The service inserts the row, or fails to and leaves an object without one.
Insert(r) ==
  /\ upload[r] = "stored"
  /\ upload' = [upload EXCEPT ![r] = "none"]
  /\ \/ row' = [row EXCEPT ![r] = "live"] /\ UNCHANGED faults
     \/ UNCHANGED row /\ Fault
  /\ UNCHANGED <<object, late, sweeps, metrics, history>>

\* A late request takes effect after all, or never does.
LateLands(request) ==
  /\ request \in late
  /\ object' = [object EXCEPT ![request[2]] = (request[1] = "put")]
  /\ late' = late \ {request}
  /\ UNCHANGED <<row, upload, sweeps, metrics, faults, history>>

LateIsLost(request) ==
  /\ request \in late
  /\ late' = late \ {request}
  /\ UNCHANGED <<row, object, upload, sweeps, metrics, faults, history>>

\* The row's retention ends, long after its last upload.
ComesDue(r) ==
  /\ row[r] = "live"
  /\ upload[r] = "none" /\ <<"put", r>> \notin late
  /\ row' = [row EXCEPT ![r] = "due"]
  /\ UNCHANGED <<storage, sweeps, metrics, faults, history>>

-----------------------------------------------------------------------------
(* Sweeps                                                                   *)

\* Slip: the series is first set by a sweep that succeeds.
Slip_NoSeed(p) == UNCHANGED metrics

\* register(): the gauge is seeded with the process's own clock.
register(p) ==
  /\ lastSuccess' = [lastSuccess EXCEPT ![p] = 0]
  /\ rows' = [rows EXCEPT ![p] = 0]

start(p) ==
  /\ pc[p] = "down"
  /\ pc' = [pc EXCEPT ![p] = "idle"]
  /\ register(p)
  /\ UNCHANGED <<row, storage, todo, current, removed, faults, history>>

\* The cron fires and the sweep reads the rows that are due.
sweep(p) ==
  LET due == {r \in Row : row[r] = "due"} IN
  /\ pc[p] = "idle" /\ p \in Scheduled
  /\ pc' = [pc EXCEPT ![p] = "sweeping"]
  /\ todo' = [todo EXCEPT ![p] = due]
  /\ removed' = [removed EXCEPT ![p] = 0]
  /\ begun' = [begun EXCEPT ![p] = due]
  /\ refused' = [refused EXCEPT ![p] = {}]
  /\ UNCHANGED <<row, storage, current, metrics, faults>>

\* remove(): the DELETE is sent.
remove(p, r) ==
  /\ pc[p] = "sweeping" /\ r \in todo[p]
  /\ pc' = [pc EXCEPT ![p] = "removing"]
  /\ current' = [current EXCEPT ![p] = r]
  /\ todo' = [todo EXCEPT ![p] = @ \ {r}]
  /\ UNCHANGED <<row, storage, removed, metrics, faults, history>>

\* The sweep leaves a row whose object may still be there untouched.
Refuse(p) ==
  /\ pc' = [pc EXCEPT ![p] = "sweeping"]
  /\ current' = [current EXCEPT ![p] = Absent]
  /\ refused' = [refused EXCEPT ![p] = @ \union {current[p]}]
  /\ UNCHANGED <<todo, removed, begun>>

\* Slip: deleting an absent key is an error.
Slip_MustExist(p) ==
  /\ pc[p] = "removing"
  /\ IF object[current[p]]
     THEN /\ pc' = [pc EXCEPT ![p] = "deleted"]
          /\ UNCHANGED <<current, refused>>
     ELSE Refuse(p)
  /\ object' = [object EXCEPT ![current[p]] = FALSE]
  /\ UNCHANGED <<row, upload, late, todo, removed, metrics, faults, begun>>

\* The bucket deletes the object, or had none under that key: both are success.
DeleteLands(p) ==
  /\ pc[p] = "removing"
  /\ pc' = [pc EXCEPT ![p] = "deleted"]
  /\ object' = [object EXCEPT ![current[p]] = FALSE]
  /\ UNCHANGED <<row, upload, late, todo, current, removed, metrics, faults, history>>

\* remove() answers true.
RemoveResolves(p) ==
  /\ pc[p] = "deleted"
  /\ pc' = [pc EXCEPT ![p] = "marking"]
  /\ UNCHANGED <<row, storage, todo, current, removed, metrics, faults, history>>

\* Slip: remove() answers true whatever happened.
Slip_CallItGone(p) ==
  /\ pc' = [pc EXCEPT ![p] = "marking"]
  /\ UNCHANGED <<todo, current, removed, history>>

\* remove()'s catch answers false and the sweep goes on.
AnswersFalse(p) == Refuse(p)

RemoveCatches(p) ==
  /\ pc[p] \in {"removing", "deleted"}
  /\ AnswersFalse(p)
  /\ late' = GivenUp(<<"delete", current[p]>>, pc[p] = "removing")
  /\ Fault
  /\ UNCHANGED <<row, object, upload, metrics>>

\* The row is marked purged, and counted.
MarkPurged(p) ==
  /\ pc[p] = "marking"
  /\ row' = [row EXCEPT ![current[p]] = "purged"]
  /\ pc' = [pc EXCEPT ![p] = "sweeping"]
  /\ current' = [current EXCEPT ![p] = Absent]
  /\ removed' = [removed EXCEPT ![p] = @ + 1]
  /\ UNCHANGED <<storage, todo, metrics, faults, history>>

\* The database fails under the sweep, the row marked or not: it throws.
SweepThrows(p) ==
  /\ pc[p] \in {"sweeping", "marking"}
  /\ \/ UNCHANGED row
     \/ pc[p] = "marking" /\ row' = [row EXCEPT ![current[p]] = "purged"]
  /\ pc' = [pc EXCEPT ![p] = "idle"]
  /\ current' = [current EXCEPT ![p] = Absent]
  /\ todo' = [todo EXCEPT ![p] = {}]
  /\ Fault
  /\ UNCHANGED <<storage, removed, metrics, history>>

\* Slip: success is recorded before the work is done.
Slip_Early(p) == pc[p] = "sweeping"

\* "Called after the work, never before."
WorkDone(p) == pc[p] = "sweeping" /\ todo[p] = {}

recordSuccess(p) ==
  /\ WorkDone(p)
  /\ lastSuccess' = [lastSuccess EXCEPT ![p] = 0]
  /\ rows' = [rows EXCEPT ![p] = @ + removed[p]]
  /\ pc' = [pc EXCEPT ![p] = "idle"]
  /\ todo' = [todo EXCEPT ![p] = {}]
  /\ UNCHANGED <<row, storage, current, removed, faults, history>>

\* The process dies: its series go with it, its request may still land.
Crash(p) ==
  /\ pc[p] # "down"
  /\ pc' = [pc EXCEPT ![p] = "down"]
  /\ todo' = [todo EXCEPT ![p] = {}]
  /\ current' = [current EXCEPT ![p] = Absent]
  /\ removed' = [removed EXCEPT ![p] = 0]
  /\ lastSuccess' = [lastSuccess EXCEPT ![p] = Absent]
  /\ rows' = [rows EXCEPT ![p] = 0]
  /\ late' = GivenUp(<<"delete", current[p]>>, pc[p] = "removing")
  /\ Fault
  /\ begun' = [begun EXCEPT ![p] = {}] /\ refused' = [refused EXCEPT ![p] = {}]
  /\ UNCHANGED <<row, object, upload>>

\* Ages past the alert's threshold are not told apart.
Older(age) == IF age \in {Absent, Threshold + 1} THEN age ELSE age + 1

Tick ==
  /\ lastSuccess' = [p \in Proc |-> Older(lastSuccess[p])]
  /\ UNCHANGED <<row, storage, sweeps, rows, faults, history>>

Sweeps(p) ==
  \/ sweep(p) \/ (\E r \in Row : remove(p, r)) \/ DeleteLands(p) \/ RemoveResolves(p)
  \/ MarkPurged(p) \/ recordSuccess(p)

Uploads(r) == put(r) \/ PutLands(r) \/ PutResolves(r) \/ PutRejects(r) \/ Insert(r)

Next ==
  \/ Tick
  \/ \E r \in Row : Uploads(r) \/ ComesDue(r)
  \/ \E q \in Request : LateLands(q) \/ LateIsLost(q)
  \/ \E p \in Proc : start(p) \/ Sweeps(p) \/ RemoveCatches(p) \/ SweepThrows(p) \/ Crash(p)

Spec == Init /\ [][Next]_vars

\* The clock runs, a process that died is started again, the cron fires and each
\* awaited call returns; nothing is assumed of uploads or of failures.
Fairness ==
  /\ WF_vars(Tick)
  /\ \A p \in Proc : WF_vars(start(p)) /\ WF_vars(Sweeps(p))

FairSpec == Spec /\ Fairness

-----------------------------------------------------------------------------
(* Properties                                                               *)

\* A row marked purged has no object, now or by a request still on its way: "a
\* row marked purged while its object survives is the one outcome nobody would
\* ever notice" (ObjectStorageService.remove).
PurgedMeansGone ==
  \A r \in Row : row[r] = "purged" => ~object[r] /\ <<"put", r>> \notin late

\* A row whose retention has not ended keeps its object, whatever uploads, late
\* requests and sweeps of other rows do to the bucket.
LiveRowKeepsItsObject == \A r \in Row : row[r] = "live" => object[r]

\* A sweep that reports success has dealt with every row that was due when it
\* began: each is purged or its object could not be removed, and the counter
\* moves by exactly the number of the former (recordSuccess: "half-finished work
\* that reports success").
SuccessIsEarned ==
  [][\A p \in Proc : recordSuccess(p) =>
       /\ \A r \in begun[p] \ refused[p] : row[r] = "purged"
       /\ rows'[p] = rows[p] + Cardinality(begun[p] \ refused[p])]_vars

\* Every row that comes due is purged in the end and its object with it, whatever
\* removal failed, was late or was interrupted on the way: a sweep may be retried.
DueRowsArePurged ==
  \A r \in Row : row[r] = "due" ~> row[r] = "purged" /\ ~object[r]

\* A sweep that stops completing, or never once runs, is seen: its replica's
\* gauge ages past the threshold (register: "so one that never runs still reports
\* something that ages").
Alert(p) == lastSuccess[p] # Absent /\ lastSuccess[p] > Threshold

StalledSweepAlerts ==
  \A p \in Proc :
    <>[](pc[p] # "down") /\ <>[][~recordSuccess(p)]_vars => <>[]Alert(p)
=============================================================================
