-------------------------- MODULE RetentionProofs --------------------------
(***************************************************************************)
(* Rows and their objects stay consistent for any number of rows, replicas   *)
(* and failures.                                                             *)
(*                                                                         *)
(* Uploads touch a row's object only before the row is due, removals only     *)
(* from then on, and a request given up on keeps to the same side of that     *)
(* line.  So once a removal has been seen to succeed nothing can bring the    *)
(* object back, and until the row is due nothing can take it away.            *)
(***************************************************************************)
EXTENDS Retention, FiniteSetTheorems, TLAPS

\* A row past the line.
Ended(r) == row[r] \in {"due", "purged"}

UploadInv ==
  \A r \in Row :
    /\ Ended(r) => upload[r] = "none" /\ <<"put", r>> \notin late
    /\ upload[r] \in {"landed", "stored"} => object[r]
    /\ <<"delete", r>> \in late => Ended(r)

\* A sweep has rows past the line only, and has seen the object of the row it is
\* about to mark deleted.
SweepInv ==
  \A p \in Proc :
    /\ \A r \in todo[p] : Ended(r)
    /\ pc[p] \in {"removing", "deleted", "marking"} => current[p] \in Row /\ Ended(current[p])
    /\ pc[p] \in {"deleted", "marking"} => ~object[current[p]]

Consistent == PurgedMeansGone /\ LiveRowKeepsItsObject /\ UploadInv /\ SweepInv

IInv == TypeOK /\ Consistent

-----------------------------------------------------------------------------
(* Uploads                                                                  *)

LEMMA UploadsInv ==
  ASSUME IInv, NEW r \in Row, Uploads(r)
  PROVE  IInv'
<1> USE DEF IInv, Consistent
<1>1. row[r] \in {"none", "live"} \/ upload[r] # "none"
  BY DEF Uploads, put, PutLands, PutResolves, PutRejects, Insert
<1>2. ~Ended(r)
  BY <1>1 DEF UploadInv, Ended
<1>3. CASE put(r) \/ PutResolves(r)
  <2>1. TypeOK'
    BY <1>3 DEF put, PutResolves, TypeOK, sweeps, metrics, history
  <2>2. Consistent'
    BY <1>2, <1>3
    DEF put, PutResolves, TypeOK, sweeps, metrics, history, PurgedMeansGone, LiveRowKeepsItsObject,
        UploadInv, SweepInv, Ended
  <2>3. QED
    BY <2>1, <2>2
<1>4. CASE PutLands(r)
  <2>1. /\ object' = [object EXCEPT ![r] = TRUE] /\ upload' = [upload EXCEPT ![r] = "landed"]
        /\ UNCHANGED <<row, late, pc, todo, current, removed, lastSuccess, rows, faults, begun, refused>>
    BY <1>4 DEF PutLands, sweeps, metrics, history
  <2>2. TypeOK'
    BY <2>1 DEF TypeOK
  <2>3. PurgedMeansGone' /\ LiveRowKeepsItsObject'
    BY <1>2, <2>1 DEF TypeOK, PurgedMeansGone, LiveRowKeepsItsObject, Ended
  <2>4. UploadInv'
    <3> SUFFICES ASSUME NEW s \in Row
                 PROVE  /\ Ended(s)' => upload'[s] = "none" /\ <<"put", s>> \notin late'
                        /\ upload'[s] \in {"landed", "stored"} => object'[s]
                        /\ <<"delete", s>> \in late' => Ended(s)'
      BY DEF UploadInv
    <3>1. CASE s = r
      BY <1>2, <2>1, <3>1 DEF TypeOK, UploadInv, Ended
    <3>2. CASE s # r
      BY <2>1, <3>2 DEF TypeOK, UploadInv, Ended
    <3>3. QED
      BY <3>1, <3>2
  <2>5. SweepInv'
    BY <1>2, <2>1 DEF TypeOK, SweepInv, Ended
  <2>6. QED
    BY <2>2, <2>3, <2>4, <2>5
<1>5. CASE PutRejects(r)
  <2>1. /\ late' \in {late, late \union {<<"put", r>>}}
        /\ UNCHANGED <<row, object, pc, todo, current, removed, lastSuccess, rows, begun, refused>>
        /\ upload' = [upload EXCEPT ![r] = "none"] /\ faults' \in 0..MaxFaults
    BY <1>5, RetentionAssumption DEF PutRejects, GivenUp, Fault, sweeps, metrics, history, TypeOK
  <2>2. TypeOK'
    BY <2>1 DEF TypeOK, Request
  <2>3. Consistent'
    BY <1>2, <2>1 DEF TypeOK, PurgedMeansGone, LiveRowKeepsItsObject, UploadInv, SweepInv, Ended
  <2>4. QED
    BY <2>2, <2>3
<1>6. CASE Insert(r)
  <2>1. /\ row' \in {row, [row EXCEPT ![r] = "live"]}
        /\ UNCHANGED <<object, late, pc, todo, current, removed, lastSuccess, rows, begun, refused>>
        /\ upload' = [upload EXCEPT ![r] = "none"] /\ faults' \in 0..MaxFaults
        /\ object[r]
    <3>1. object[r]
      BY <1>6 DEF Insert, UploadInv
    <3>2. CASE row' = [row EXCEPT ![r] = "live"] /\ UNCHANGED faults
      BY <1>6, <3>1, <3>2 DEF Insert, sweeps, metrics, history, TypeOK
    <3>3. CASE UNCHANGED row /\ Fault
      <4>1. faults' \in 0..MaxFaults
        BY <3>3, RetentionAssumption DEF Fault, TypeOK
      <4>2. QED
        BY <1>6, <3>1, <3>3, <4>1 DEF Insert, sweeps, metrics, history
    <3>4. QED
      BY <1>6, <3>2, <3>3 DEF Insert
  <2>2. TypeOK'
    BY <2>1 DEF TypeOK
  <2>3. PurgedMeansGone' /\ LiveRowKeepsItsObject'
    BY <2>1 DEF TypeOK, PurgedMeansGone, LiveRowKeepsItsObject
  <2>4. UploadInv'
    <3> SUFFICES ASSUME NEW s \in Row
                 PROVE  /\ Ended(s)' => upload'[s] = "none" /\ <<"put", s>> \notin late'
                        /\ upload'[s] \in {"landed", "stored"} => object'[s]
                        /\ <<"delete", s>> \in late' => Ended(s)'
      BY DEF UploadInv
    <3>1. CASE s = r
      BY <1>2, <2>1, <3>1 DEF TypeOK, UploadInv, Ended
    <3>2. CASE s # r
      BY <2>1, <3>2 DEF TypeOK, UploadInv, Ended
    <3>3. QED
      BY <3>1, <3>2
  <2>5. SweepInv'
    BY <1>2, <2>1 DEF TypeOK, SweepInv, Ended
  <2>6. QED
    BY <2>2, <2>3, <2>4, <2>5
<1>7. QED
  BY <1>3, <1>4, <1>5, <1>6 DEF Uploads

\* A late upload is of a row before the line, a late removal of one past it.
LEMMA LateInv ==
  ASSUME IInv, NEW q \in Request, LateLands(q) \/ LateIsLost(q)
  PROVE  IInv'
<1> USE DEF IInv, Consistent
<1>1. PICK kind \in {"put", "delete"}, r \in Row : q = <<kind, r>>
  BY DEF Request
<1>2. CASE LateLands(q)
  <2>1. /\ q \in late /\ late' = late \ {q}
        /\ object' = [object EXCEPT ![r] = (kind = "put")]
        /\ UNCHANGED <<row, upload, pc, todo, current, removed, lastSuccess, rows, faults, begun, refused>>
    BY <1>1, <1>2 DEF LateLands, sweeps, metrics, history
  <2>2. TypeOK'
    BY <2>1 DEF TypeOK
  <2>3. CASE kind = "put"
    <3>1. ~Ended(r)
      BY <1>1, <2>1, <2>3 DEF UploadInv
    <3>2. QED
      BY <2>1, <2>2, <2>3, <3>1
      DEF TypeOK, PurgedMeansGone, LiveRowKeepsItsObject, UploadInv, SweepInv, Ended
  <2>4. CASE kind = "delete"
    <3>1. Ended(r)
      BY <1>1, <2>1, <2>4 DEF UploadInv
    <3>2. QED
      BY <2>1, <2>2, <2>4, <3>1
      DEF TypeOK, PurgedMeansGone, LiveRowKeepsItsObject, UploadInv, SweepInv, Ended
  <2>5. QED
    BY <2>3, <2>4
<1>3. CASE LateIsLost(q)
  BY <1>3 DEF LateIsLost, sweeps, metrics, history, TypeOK, PurgedMeansGone, LiveRowKeepsItsObject,
              UploadInv, SweepInv, Ended
<1>4. QED
  BY <1>2, <1>3

LEMMA ComesDueInv ==
  ASSUME IInv, NEW r \in Row, ComesDue(r)
  PROVE  IInv'
BY DEF ComesDue, storage, sweeps, metrics, history, IInv, Consistent, TypeOK, PurgedMeansGone,
       LiveRowKeepsItsObject, UploadInv, SweepInv, Ended

-----------------------------------------------------------------------------
(* Sweeps                                                                   *)

\* A step that leaves rows and storage alone keeps them consistent if the sweeps
\* stay within what is known of them.
LEMMA SweepOnly ==
  ASSUME IInv, UNCHANGED <<row, object, upload>>, TypeOK', SweepInv',
         \A q \in late' \ late : \E r \in Row : q = <<"delete", r>> /\ Ended(r)
  PROVE  IInv'
<1>1. \A r \in Row : <<"put", r>> \in late' => <<"put", r>> \in late
  OBVIOUS
<1>2. \A r \in Row : <<"delete", r>> \in late' => <<"delete", r>> \in late \/ Ended(r)
  OBVIOUS
<1>3. QED
  BY <1>1, <1>2
  DEF IInv, Consistent, PurgedMeansGone, LiveRowKeepsItsObject, UploadInv, Ended

\* What GivenUp adds, if anything, is the removal of a row past the line.
LEMMA GivenUpDelete ==
  ASSUME IInv, NEW p \in Proc, late' = GivenUp(<<"delete", current[p]>>, pc[p] = "removing")
  PROVE  /\ late' \in SUBSET Request
         /\ \A q \in late' \ late : \E r \in Row : q = <<"delete", r>> /\ Ended(r)
<1>1. CASE pc[p] = "removing"
  BY <1>1 DEF GivenUp, IInv, Consistent, SweepInv, TypeOK, Request
<1>2. CASE pc[p] # "removing"
  BY <1>2 DEF GivenUp, IInv, TypeOK
<1>3. QED
  BY <1>1, <1>2

LEMMA StartInv ==
  ASSUME IInv, NEW p \in Proc, start(p)
  PROVE  IInv'
<1>1. /\ pc' = [pc EXCEPT ![p] = "idle"]
      /\ lastSuccess' = [lastSuccess EXCEPT ![p] = 0] /\ rows' = [rows EXCEPT ![p] = 0]
      /\ UNCHANGED <<row, object, upload, late, todo, current, removed, faults, begun, refused>>
  BY DEF start, register, storage, history
<1>2. 0 \in Age
  BY RetentionAssumption DEF Age
<1>3. TypeOK'
  BY <1>1, <1>2 DEF IInv, TypeOK
<1>4. SweepInv'
  BY <1>1 DEF IInv, Consistent, TypeOK, SweepInv, Ended
<1>5. QED
  BY <1>1, <1>3, <1>4, SweepOnly

LEMMA SweepBegins ==
  ASSUME IInv, NEW p \in Proc, sweep(p)
  PROVE  IInv'
<1>1. TypeOK'
  BY DEF sweep, storage, metrics, IInv, TypeOK, Sweeping
<1>2. SweepInv'
  BY DEF sweep, storage, metrics, IInv, Consistent, TypeOK, SweepInv, Ended
<1>3. QED
  BY <1>1, <1>2, SweepOnly DEF sweep, storage

LEMMA RemoveInv ==
  ASSUME IInv, NEW p \in Proc, NEW r \in Row, remove(p, r)
  PROVE  IInv'
<1>1. TypeOK'
  BY DEF remove, storage, metrics, history, IInv, TypeOK, Sweeping
<1>2. SweepInv'
  BY DEF remove, storage, metrics, history, IInv, Consistent, TypeOK, SweepInv, Ended
<1>3. QED
  BY <1>1, <1>2, SweepOnly DEF remove, storage

LEMMA DeleteLandsInv ==
  ASSUME IInv, NEW p \in Proc, DeleteLands(p)
  PROVE  IInv'
<1>1. current[p] \in Row /\ Ended(current[p])
  BY DEF DeleteLands, IInv, Consistent, SweepInv
<1>2. TypeOK'
  BY DEF DeleteLands, metrics, history, IInv, TypeOK, Sweeping
<1>3. Consistent'
  BY <1>1 DEF DeleteLands, metrics, history, IInv, Consistent, TypeOK, PurgedMeansGone,
              LiveRowKeepsItsObject, UploadInv, SweepInv, Ended
<1>4. QED
  BY <1>2, <1>3 DEF IInv

LEMMA RemoveResolvesInv ==
  ASSUME IInv, NEW p \in Proc, RemoveResolves(p)
  PROVE  IInv'
<1>1. TypeOK' /\ SweepInv'
  BY DEF RemoveResolves, storage, metrics, history, IInv, Consistent, TypeOK, SweepInv, Sweeping, Ended
<1>2. QED
  BY <1>1, SweepOnly DEF RemoveResolves, storage

LEMMA RemoveCatchesInv ==
  ASSUME IInv, NEW p \in Proc, RemoveCatches(p)
  PROVE  IInv'
<1>1. late' \in SUBSET Request
  BY GivenUpDelete DEF RemoveCatches
<1>2. TypeOK'
  BY <1>1, RetentionAssumption
  DEF RemoveCatches, AnswersFalse, Refuse, Fault, metrics, IInv, Consistent, TypeOK, SweepInv, Sweeping
<1>3. SweepInv'
  BY DEF RemoveCatches, AnswersFalse, Refuse, IInv, Consistent, TypeOK, SweepInv, Ended
<1>4. QED
  BY <1>2, <1>3, SweepOnly, GivenUpDelete DEF RemoveCatches

\* The row in hand is past the line and its object gone: it may be marked.
LEMMA Marked ==
  ASSUME IInv, NEW p \in Proc, pc[p] = "marking",
         row' = [row EXCEPT ![current[p]] = "purged"],
         UNCHANGED storage, TypeOK', SweepInv'
  PROVE  IInv'
<1>1. /\ current[p] \in Row /\ Ended(current[p]) /\ ~object[current[p]]
      /\ upload[current[p]] = "none" /\ <<"put", current[p]>> \notin late
  BY DEF IInv, Consistent, SweepInv, UploadInv
<1>2. /\ row \in [Row -> {"none", "live", "due", "purged"}]
      /\ UNCHANGED <<object, upload, late>>
  BY DEF storage, IInv, TypeOK
<1>3. PurgedMeansGone'
  BY <1>1, <1>2 DEF IInv, Consistent, PurgedMeansGone
<1>4. LiveRowKeepsItsObject'
  BY <1>1, <1>2 DEF IInv, Consistent, LiveRowKeepsItsObject
<1>5. UploadInv'
  BY <1>1, <1>2 DEF IInv, Consistent, UploadInv, Ended
<1>6. QED
  BY <1>3, <1>4, <1>5 DEF IInv, Consistent

LEMMA MarkPurgedInv ==
  ASSUME IInv, NEW p \in Proc, MarkPurged(p)
  PROVE  IInv'
<1>1. current[p] \in Row
  BY DEF MarkPurged, IInv, Consistent, SweepInv
<1>2. TypeOK'
  BY <1>1 DEF MarkPurged, storage, metrics, history, IInv, TypeOK, Sweeping
<1>3. SweepInv'
  BY <1>1 DEF MarkPurged, storage, metrics, history, IInv, Consistent, TypeOK, SweepInv, Ended
<1>4. QED
  BY <1>2, <1>3, Marked DEF MarkPurged

LEMMA SweepThrowsInv ==
  ASSUME IInv, NEW p \in Proc, SweepThrows(p)
  PROVE  IInv'
<1>1. /\ row' = row \/ (pc[p] = "marking" /\ row' = [row EXCEPT ![current[p]] = "purged"])
      /\ pc[p] = "marking" => current[p] \in Row
      /\ faults' \in 0..MaxFaults
      /\ UNCHANGED <<object, upload, late, removed, lastSuccess, rows, begun, refused>>
      /\ pc' = [pc EXCEPT ![p] = "idle"]
      /\ current' = [current EXCEPT ![p] = Absent]
      /\ todo' = [todo EXCEPT ![p] = {}]
  <2>1. faults' \in 0..MaxFaults
    BY RetentionAssumption DEF SweepThrows, Fault, IInv, TypeOK
  <2>2. pc[p] = "marking" => current[p] \in Row
    BY DEF IInv, Consistent, SweepInv
  <2>3. QED
    BY <2>1, <2>2 DEF SweepThrows, storage, metrics, history
<1>2. TypeOK'
  BY <1>1 DEF IInv, TypeOK
<1>3. SweepInv'
  BY <1>1 DEF IInv, Consistent, TypeOK, SweepInv, Ended
<1>4. CASE row' = row
  BY <1>1, <1>2, <1>3, <1>4, SweepOnly
<1>5. CASE pc[p] = "marking" /\ row' = [row EXCEPT ![current[p]] = "purged"]
  <2>1. UNCHANGED storage
    BY <1>1 DEF storage
  <2>2. QED
    BY <1>2, <1>3, <1>5, <2>1, Marked
<1>6. QED
  BY <1>1, <1>4, <1>5

LEMMA RecordSuccessInv ==
  ASSUME IInv, NEW p \in Proc, recordSuccess(p)
  PROVE  IInv'
<1>0. 0 \in Age /\ rows[p] + removed[p] \in Nat
  BY RetentionAssumption DEF Age, IInv, TypeOK
<1>1. /\ lastSuccess' = [lastSuccess EXCEPT ![p] = 0]
      /\ rows' = [rows EXCEPT ![p] = rows[p] + removed[p]]
      /\ pc' = [pc EXCEPT ![p] = "idle"] /\ todo' = [todo EXCEPT ![p] = {}]
      /\ UNCHANGED <<row, object, upload, late, current, removed, faults, begun, refused>>
  BY DEF recordSuccess, storage, history, IInv, TypeOK
<1>2. TypeOK'
  BY <1>0, <1>1 DEF IInv, TypeOK
<1>3. SweepInv'
  BY <1>1 DEF IInv, Consistent, TypeOK, SweepInv, Ended
<1>4. QED
  BY <1>1, <1>2, <1>3, SweepOnly

LEMMA CrashInv ==
  ASSUME IInv, NEW p \in Proc, Crash(p)
  PROVE  IInv'
<1>1. late' \in SUBSET Request
  BY GivenUpDelete DEF Crash
<1>2. TypeOK'
  BY <1>1, RetentionAssumption DEF Crash, Fault, IInv, TypeOK
<1>3. SweepInv'
  BY DEF Crash, IInv, Consistent, TypeOK, SweepInv, Ended
<1>4. QED
  BY <1>2, <1>3, SweepOnly, GivenUpDelete DEF Crash

LEMMA TickInv == IInv /\ Tick => IInv'
<1> SUFFICES ASSUME IInv, Tick PROVE IInv'
  OBVIOUS
<1>1. lastSuccess' \in [Proc -> Age \union {Absent}]
  BY RetentionAssumption DEF Tick, Older, Age, IInv, TypeOK
<1>2. TypeOK'
  BY <1>1 DEF Tick, storage, sweeps, history, IInv, TypeOK
<1>3. SweepInv'
  BY DEF Tick, storage, sweeps, IInv, Consistent, SweepInv, Ended
<1>4. QED
  BY <1>2, <1>3, SweepOnly DEF Tick, storage

-----------------------------------------------------------------------------

\* There is no row, no object and no sweep at first.
THEOREM InitIInv == Init => IInv
<1> SUFFICES ASSUME Init PROVE IInv
  OBVIOUS
<1>1. TypeOK
  BY RetentionAssumption DEF Init, TypeOK
<1>2. Consistent
  BY DEF Init, Consistent, PurgedMeansGone, LiveRowKeepsItsObject, UploadInv, SweepInv, Ended
<1>3. QED
  BY <1>1, <1>2 DEF IInv

\* Every step of an upload and of a sweep, its failure included, keeps the invariant.
THEOREM NextIInv == IInv /\ [Next]_vars => IInv'
<1> SUFFICES ASSUME IInv, [Next]_vars PROVE IInv'
  OBVIOUS
<1>1. CASE UNCHANGED vars
  BY <1>1 DEF vars, storage, sweeps, metrics, history, IInv, Consistent, TypeOK, PurgedMeansGone,
              LiveRowKeepsItsObject, UploadInv, SweepInv, Ended
<1>2. ASSUME NEW p \in Proc, Sweeps(p) PROVE IInv'
  BY <1>2, SweepBegins, RemoveInv, DeleteLandsInv, RemoveResolvesInv, MarkPurgedInv, RecordSuccessInv
  DEF Sweeps
<1>3. QED
  BY <1>1, <1>2, TickInv, UploadsInv, ComesDueInv, LateInv, StartInv, RemoveCatchesInv,
     SweepThrowsInv, CrashInv DEF Next

\* IInv holds of every reachable state.
THEOREM IInvHolds == Spec => []IInv
BY InitIInv, NextIInv, PTL DEF Spec

\* Types are kept (rows, objects, uploads, sweeps and the two metrics).
THEOREM TypeCorrect == Spec => []TypeOK
<1>1. IInv => TypeOK
  BY DEF IInv
<1>2. QED
  BY <1>1, IInvHolds, PTL

\* A row marked purged has no object, nor ever will (ObjectStorageService.remove).
THEOREM PurgedIsGone == Spec => []PurgedMeansGone
<1>1. IInv => PurgedMeansGone
  BY DEF IInv, Consistent
<1>2. QED
  BY <1>1, IInvHolds, PTL

\* A live row's object is there (ObjectStorageService.put).
THEOREM LiveRowsAreWhole == Spec => []LiveRowKeepsItsObject
<1>1. IInv => LiveRowKeepsItsObject
  BY DEF IInv, Consistent
<1>2. QED
  BY <1>1, IInvHolds, PTL

-----------------------------------------------------------------------------
(* What a sweep reports                                                      *)

InHand(p) == IF pc[p] \in {"removing", "deleted", "marking"} THEN {current[p]} ELSE {}

\* The rows of the sweep that are neither to come, in hand nor refused.
Done(p) == begun[p] \ (todo[p] \union refused[p] \union InHand(p))

\* A sweep's rows to come, in hand and refused are apart; the rest are purged and
\* counted.
SweepEarned(p) ==
  pc[p] \in Sweeping =>
    /\ IsFiniteSet(begun[p])
    /\ todo[p] \union refused[p] \union InHand(p) \subseteq begun[p]
    /\ todo[p] \intersect refused[p] = {}
    /\ InHand(p) \intersect (todo[p] \union refused[p]) = {}
    /\ \A r \in Done(p) : row[r] = "purged"
    /\ removed[p] = Cardinality(Done(p))

\* However large the table may grow, it is finite: so is what a sweep counts.
Known == {r \in Row : row[r] # "none"}

EarnedInv == IsFiniteSet(Known) /\ \A p \in Proc : SweepEarned(p)

\* A step that does not change the sweep, and un-purges nothing.
LEMMA EarnedFrame ==
  ASSUME NEW p \in Proc, SweepEarned(p),
         UNCHANGED <<pc[p], todo[p], current[p], removed[p], begun[p], refused[p]>>,
         \A r \in Row : row[r] = "purged" => row'[r] = "purged", begun[p] \subseteq Row
  PROVE  SweepEarned(p)'
<1>1. Done(p)' = Done(p) /\ InHand(p)' = InHand(p) /\ Done(p) \subseteq Row
  BY DEF Done, InHand
<1> QED BY <1>1 DEF SweepEarned

\* A step that changes no sweep, and un-purges nothing.
LEMMA EarnedAside ==
  ASSUME IInv, EarnedInv, UNCHANGED <<sweeps, history>>,
         \A r \in Row : row[r] = "purged" => row'[r] = "purged",
         IsFiniteSet(Known)'
  PROVE  EarnedInv'
BY EarnedFrame DEF EarnedInv, IInv, TypeOK, sweeps, history

\* A step of one sweep, and of no other.
LEMMA EarnedStep ==
  ASSUME IInv, EarnedInv, NEW p \in Proc, SweepEarned(p)',
         \A q \in Proc \ {p} :
           UNCHANGED <<pc[q], todo[q], current[q], removed[q], begun[q], refused[q]>>,
         \/ UNCHANGED row
         \/ pc[p] = "marking" /\ row' = [row EXCEPT ![current[p]] = "purged"]
  PROVE  EarnedInv'
<1>1. \A r \in Row : row[r] = "purged" => row'[r] = "purged"
  BY DEF IInv, TypeOK
<1>2. Known' = Known
  BY DEF Known, IInv, Consistent, TypeOK, SweepInv, Ended
<1>3. \A q \in Proc \ {p} : SweepEarned(q)'
  BY <1>1, EarnedFrame DEF EarnedInv, IInv, TypeOK
<1> QED BY <1>2, <1>3 DEF EarnedInv

\* Rows come into being one at a time.
LEMMA UploadsEarned ==
  ASSUME IInv, EarnedInv, NEW r \in Row, Uploads(r) \/ ComesDue(r)  PROVE EarnedInv'
<1>1. row' = row \/ (row' = [row EXCEPT ![r] = "live"] /\ ~Ended(r))
      \/ (row' = [row EXCEPT ![r] = "due"] /\ row[r] = "live")
  BY DEF Uploads, put, PutLands, PutResolves, PutRejects, Insert, ComesDue, Ended,
         IInv, Consistent, UploadInv
<1>2. Known' \subseteq Known \union {r}
  BY <1>1 DEF Known, IInv, TypeOK
<1>3. IsFiniteSet(Known \union {r})
  BY FS_AddElement DEF EarnedInv
<1>4. IsFiniteSet(Known)'
  BY <1>2, <1>3, FS_Subset
<1>5. \A s \in Row : row[s] = "purged" => row'[s] = "purged"
  BY <1>1 DEF Ended, IInv, TypeOK
<1>6. UNCHANGED <<sweeps, history>>
  BY DEF Uploads, put, PutLands, PutResolves, PutRejects, Insert, ComesDue
<1> QED BY <1>4, <1>5, <1>6, EarnedAside

LEMMA SweepBeginsEarned ==
  ASSUME IInv, EarnedInv, NEW p \in Proc, sweep(p)  PROVE EarnedInv'
<1> DEFINE due == {r \in Row : row[r] = "due"}
<1>1. /\ pc'[p] = "sweeping" /\ todo'[p] = due /\ begun'[p] = due
      /\ refused'[p] = {} /\ removed'[p] = 0
  BY DEF sweep, IInv, TypeOK
<1>2. IsFiniteSet(due)
  <2>1. due \subseteq Known
    BY DEF Known
  <2> QED BY <2>1, FS_Subset DEF EarnedInv
<1>3. Done(p)' = {} /\ InHand(p)' = {}
  BY <1>1 DEF Done, InHand
<1>4. SweepEarned(p)'
  BY <1>1, <1>2, <1>3, FS_EmptySet DEF SweepEarned
<1>5. /\ UNCHANGED row
      /\ \A q \in Proc \ {p} :
           UNCHANGED <<pc[q], todo[q], current[q], removed[q], begun[q], refused[q]>>
  BY DEF sweep, IInv, TypeOK
<1> QED BY <1>4, <1>5, EarnedStep

\* From one row in hand to the next the sweep's accounts stay balanced.
LEMMA RemovalEarned ==
  ASSUME IInv, EarnedInv, NEW p \in Proc,
         (\E r \in Row : remove(p, r)) \/ DeleteLands(p) \/ RemoveResolves(p) \/ RemoveCatches(p)
  PROVE  EarnedInv'
<1>1. /\ UNCHANGED row
      /\ \A q \in Proc \ {p} :
           UNCHANGED <<pc[q], todo[q], current[q], removed[q], begun[q], refused[q]>>
  BY DEF remove, DeleteLands, RemoveResolves, RemoveCatches, AnswersFalse, Refuse, history, IInv, TypeOK
<1>2. pc[p] \in Sweeping /\ SweepEarned(p)
  BY DEF remove, DeleteLands, RemoveResolves, RemoveCatches, Sweeping, EarnedInv
<1>3. CASE \E r \in Row : remove(p, r)
  <2>1. PICK r \in Row : remove(p, r)
    BY <1>3
  <2>2. /\ pc[p] = "sweeping" /\ r \in todo[p]
        /\ pc'[p] = "removing" /\ current'[p] = r /\ todo'[p] = todo[p] \ {r}
        /\ UNCHANGED <<removed, begun, refused>>
    BY <2>1 DEF remove, history, IInv, TypeOK
  <2>3. InHand(p) = {} /\ InHand(p)' = {r}
    BY <2>2 DEF InHand
  <2>4. Done(p)' = Done(p)
    BY <2>2, <2>3 DEF Done
  <2>5. SweepEarned(p)'
    BY <1>1, <1>2, <2>2, <2>3, <2>4 DEF SweepEarned
  <2> QED BY <1>1, <2>5, EarnedStep
<1>4. CASE DeleteLands(p) \/ RemoveResolves(p)
  <2>1. /\ pc[p] \in {"removing", "deleted"} /\ pc'[p] \in {"deleted", "marking"}
        /\ UNCHANGED <<todo, current, removed, begun, refused>>
    BY <1>4 DEF DeleteLands, RemoveResolves, history, IInv, TypeOK
  <2>2. InHand(p)' = InHand(p) /\ Done(p)' = Done(p)
    BY <2>1 DEF InHand, Done
  <2>3. SweepEarned(p)'
    BY <1>1, <1>2, <2>1, <2>2 DEF SweepEarned
  <2> QED BY <1>1, <2>3, EarnedStep
<1>5. CASE RemoveCatches(p)
  <2>1. /\ pc[p] \in {"removing", "deleted"} /\ pc'[p] = "sweeping"
        /\ refused'[p] = refused[p] \union {current[p]}
        /\ UNCHANGED <<todo, removed, begun>>
    BY <1>5 DEF RemoveCatches, AnswersFalse, Refuse, IInv, TypeOK
  <2>2. InHand(p) = {current[p]} /\ InHand(p)' = {}
    BY <2>1 DEF InHand
  <2>3. Done(p)' = Done(p)
    BY <2>1, <2>2 DEF Done
  <2>4. SweepEarned(p)'
    BY <1>1, <1>2, <2>1, <2>2, <2>3 DEF SweepEarned
  <2> QED BY <1>1, <2>4, EarnedStep
<1> QED BY <1>3, <1>4, <1>5

\* One row more is purged, and the count goes up by one.
LEMMA MarkEarned ==
  ASSUME IInv, EarnedInv, NEW p \in Proc, MarkPurged(p)  PROVE EarnedInv'
<1> DEFINE r == current[p]
<1>1. /\ pc[p] = "marking" /\ pc'[p] = "sweeping" /\ removed'[p] = removed[p] + 1
      /\ row' = [row EXCEPT ![r] = "purged"]
      /\ UNCHANGED <<todo, begun, refused>>
      /\ \A q \in Proc \ {p} :
           UNCHANGED <<pc[q], todo[q], current[q], removed[q], begun[q], refused[q]>>
  BY DEF MarkPurged, history, IInv, TypeOK
<1>2. SweepEarned(p) /\ pc[p] \in Sweeping /\ r \in Row
  BY <1>1 DEF EarnedInv, Sweeping, IInv, Consistent, SweepInv
<1>3. InHand(p) = {r} /\ InHand(p)' = {}
  BY <1>1 DEF InHand
<1>4. Done(p)' = Done(p) \union {r} /\ r \notin Done(p)
  BY <1>1, <1>2, <1>3 DEF Done, SweepEarned
<1>5. IsFiniteSet(Done(p))
  BY <1>2, FS_Difference DEF SweepEarned, Done
<1>6. Cardinality(Done(p)') = Cardinality(Done(p)) + 1
  BY <1>4, <1>5, FS_AddElement
<1>7. row'[r] = "purged" /\ \A s \in Row \ {r} : row'[s] = row[s]
  BY <1>1, <1>2 DEF IInv, TypeOK
<1>8. \A s \in Done(p)' : row'[s] = "purged"
  <2>1. Done(p) \subseteq Row
    BY DEF Done, IInv, TypeOK
  <2> QED BY <1>2, <1>4, <1>7, <2>1 DEF SweepEarned
<1>9. SweepEarned(p)'
  <2>1. Cardinality(Done(p))' = Cardinality(Done(p)) + 1
    BY <1>6
  <2> QED BY <1>1, <1>2, <1>3, <1>8, <2>1 DEF SweepEarned
<1> QED BY <1>1, <1>9, EarnedStep

\* A sweep that is over, however it ended, owes nothing.
LEMMA EndEarned ==
  ASSUME IInv, EarnedInv, NEW p \in Proc,
         start(p) \/ SweepThrows(p) \/ recordSuccess(p) \/ Crash(p)
  PROVE  EarnedInv'
<1>1. pc'[p] \in {"idle", "down"}
  BY DEF start, SweepThrows, recordSuccess, Crash, IInv, TypeOK
<1>2. SweepEarned(p)'
  BY <1>1 DEF SweepEarned, Sweeping
<1>3. \A q \in Proc \ {p} :
        UNCHANGED <<pc[q], todo[q], current[q], removed[q], begun[q], refused[q]>>
  BY DEF start, SweepThrows, recordSuccess, Crash, history, IInv, TypeOK
<1>4. \/ UNCHANGED row
      \/ pc[p] = "marking" /\ row' = [row EXCEPT ![current[p]] = "purged"]
  BY DEF start, SweepThrows, recordSuccess, Crash
<1> QED BY <1>2, <1>3, <1>4, EarnedStep

LEMMA NextEarned == IInv /\ EarnedInv /\ [Next]_vars => EarnedInv'
<1> SUFFICES ASSUME IInv, EarnedInv, [Next]_vars PROVE EarnedInv'
  OBVIOUS
<1>1. CASE Tick \/ UNCHANGED vars \/ \E q \in Request : LateLands(q) \/ LateIsLost(q)
  <2>1. UNCHANGED <<row, sweeps, history>>
    BY <1>1 DEF Tick, vars, LateLands, LateIsLost
  <2>2. IsFiniteSet(Known)'
    BY <2>1 DEF EarnedInv, Known
  <2> QED BY <2>1, <2>2, EarnedAside
<1>2. ASSUME NEW p \in Proc, Sweeps(p) \/ RemoveCatches(p)  PROVE EarnedInv'
  BY <1>2, SweepBeginsEarned, RemovalEarned, MarkEarned, EndEarned DEF Sweeps
<1> QED BY <1>1, <1>2, UploadsEarned, EndEarned DEF Next

\* A sweep that reports success has purged or been refused every row that was due
\* when it began, and counts the purged ones (recordSuccess).
THEOREM ReportedIsDone == Spec => SuccessIsEarned
<1>1. Init => EarnedInv
  <2>1. Init => Known = {}
    BY DEF Init, Known
  <2>2. Init => \A p \in Proc : SweepEarned(p)
    BY DEF Init, SweepEarned, Sweeping
  <2> QED BY <2>1, <2>2, FS_EmptySet DEF EarnedInv
<1>2. IInv /\ EarnedInv =>
        \A p \in Proc : recordSuccess(p) =>
          /\ \A r \in begun[p] \ refused[p] : row[r] = "purged"
          /\ rows'[p] = rows[p] + Cardinality(begun[p] \ refused[p])
  <2> SUFFICES ASSUME IInv, EarnedInv, NEW p \in Proc, recordSuccess(p)
               PROVE  /\ \A r \in begun[p] \ refused[p] : row[r] = "purged"
                      /\ rows'[p] = rows[p] + Cardinality(begun[p] \ refused[p])
    OBVIOUS
  <2>1. pc[p] = "sweeping" /\ todo[p] = {} /\ rows'[p] = rows[p] + removed[p]
    BY DEF recordSuccess, WorkDone, IInv, TypeOK
  <2>2. Done(p) = begun[p] \ refused[p]
    BY <2>1 DEF Done, InHand
  <2> QED BY <2>1, <2>2 DEF EarnedInv, SweepEarned, Sweeping
<1> QED BY <1>1, <1>2, NextEarned, IInvHolds, PTL DEF Spec, SuccessIsEarned

-----------------------------------------------------------------------------
(* What the gauge says of a sweep that is not over (the safety half of        *)
(* StalledSweepAlerts)                                                       *)

\* A replica reports for as long as it runs, and its gauge only ever gets older:
\* it is set back, and the counter moved, by a sweep that has done its work.
GaugeAges ==
  [][\A p \in Proc : pc[p] # "down" /\ pc'[p] # "down" =>
       /\ lastSuccess[p] # Absent /\ lastSuccess'[p] # Absent
       /\ lastSuccess'[p] < lastSuccess[p] \/ rows'[p] # rows[p] => recordSuccess(p)]_vars

SeriesInv == \A p \in Proc : lastSuccess[p] = Absent <=> pc[p] = "down"

\* What the steps of a replica other than its start, its success and its crash
\* leave alone.
LEMMA SweepIsQuiet ==
  ASSUME NEW p \in Proc,
         Sweeps(p) \/ RemoveCatches(p) \/ SweepThrows(p), ~recordSuccess(p), IInv
  PROVE  UNCHANGED metrics /\ pc[p] # "down" /\ pc' = [pc EXCEPT ![p] = pc'[p]] /\ pc'[p] # "down"
<1>1. UNCHANGED metrics /\ pc[p] # "down"
  BY DEF Sweeps, sweep, remove, DeleteLands, RemoveResolves, MarkPurged, RemoveCatches, SweepThrows
<1>2. \E at \in {"sweeping", "removing", "deleted", "marking", "idle"} : pc' = [pc EXCEPT ![p] = at]
  BY DEF Sweeps, sweep, remove, DeleteLands, RemoveResolves, MarkPurged, RemoveCatches, AnswersFalse,
     Refuse, SweepThrows
<1> QED BY <1>1, <1>2 DEF IInv, TypeOK

\* The series of a replica lives as long as its process does.
LEMMA NextSeries == IInv /\ SeriesInv /\ [Next]_vars => SeriesInv'
<1> SUFFICES ASSUME IInv, SeriesInv, [Next]_vars PROVE SeriesInv'
  OBVIOUS
<1>1. CASE Tick
  <2>1. \A p \in Proc : lastSuccess'[p] = Absent <=> lastSuccess[p] = Absent
    BY <1>1, RetentionAssumption DEF Tick, Older, Age, IInv, TypeOK
  <2> QED BY <1>1, <2>1 DEF Tick, SeriesInv, sweeps
<1>2. CASE \/ UNCHANGED vars
           \/ \E r \in Row : Uploads(r) \/ ComesDue(r)
           \/ \E q \in Request : LateLands(q) \/ LateIsLost(q)
  <2>1. UNCHANGED <<pc, lastSuccess>>
    BY <1>2 DEF vars, Uploads, put, PutLands, PutResolves, PutRejects, Insert, ComesDue, LateLands,
       LateIsLost, sweeps, metrics
  <2> QED BY <2>1 DEF SeriesInv
<1>3. ASSUME NEW p \in Proc,
             Sweeps(p) \/ RemoveCatches(p) \/ SweepThrows(p), ~recordSuccess(p)
      PROVE  SeriesInv'
  BY <1>3, SweepIsQuiet DEF SeriesInv, metrics, IInv, TypeOK
<1>4. ASSUME NEW p \in Proc, start(p) \/ recordSuccess(p) \/ Crash(p)  PROVE SeriesInv'
  BY <1>4, RetentionAssumption DEF start, register, recordSuccess, WorkDone, Crash, SeriesInv, IInv, TypeOK
<1> QED BY <1>1, <1>2, <1>3, <1>4 DEF Next

\* The steps that touch what a running replica reports: the clock, which never
\* makes it younger, and its own success.
LEMMA GaugeStep ==
  ASSUME IInv, SeriesInv, [Next]_vars, NEW p \in Proc, pc[p] # "down", pc'[p] # "down", ~recordSuccess(p)
  PROVE  rows'[p] = rows[p] /\ ~(lastSuccess'[p] < lastSuccess[p])
<1>1. lastSuccess[p] \in Nat /\ lastSuccess[p] # Absent
  BY RetentionAssumption DEF SeriesInv, IInv, TypeOK, Age
<1>2. CASE Tick
  BY <1>1, <1>2, RetentionAssumption DEF Tick, Older, IInv, TypeOK, Age
<1>3. CASE \/ UNCHANGED vars
           \/ \E r \in Row : Uploads(r) \/ ComesDue(r)
           \/ \E q \in Request : LateLands(q) \/ LateIsLost(q)
  <2>1. UNCHANGED metrics
    BY <1>3 DEF vars, Uploads, put, PutLands, PutResolves, PutRejects, Insert, ComesDue, LateLands, LateIsLost
  <2> QED BY <1>1, <2>1 DEF metrics
<1>4. ASSUME NEW q \in Proc,
             Sweeps(q) \/ RemoveCatches(q) \/ SweepThrows(q), ~recordSuccess(q)
      PROVE  UNCHANGED metrics
  BY <1>4, SweepIsQuiet
<1>5. ASSUME NEW q \in Proc, start(q) \/ recordSuccess(q) \/ Crash(q)
      PROVE  UNCHANGED <<lastSuccess[p], rows[p]>>
  <2>1. q # p
    BY <1>5 DEF start, Crash, IInv, TypeOK
  <2> QED BY <1>5, <2>1 DEF start, register, recordSuccess, Crash, IInv, TypeOK
<1> QED BY <1>1, <1>2, <1>3, <1>4, <1>5 DEF Next, metrics

\* A sweep that hangs, throws or never runs leaves a series that gets older: no
\* replica that runs is without one, and nothing but recordSuccess makes it young
\* again (register, recordSuccess).
THEOREM NoFalseFreshness == Spec => GaugeAges
<1>1. Init => SeriesInv
  BY DEF Init, SeriesInv
<1>2. IInv /\ SeriesInv /\ SeriesInv' /\ [Next]_vars =>
        [\A p \in Proc : pc[p] # "down" /\ pc'[p] # "down" =>
           /\ lastSuccess[p] # Absent /\ lastSuccess'[p] # Absent
           /\ lastSuccess'[p] < lastSuccess[p] \/ rows'[p] # rows[p] => recordSuccess(p)]_vars
  BY GaugeStep DEF SeriesInv
<1> QED BY <1>1, <1>2, NextSeries, IInvHolds, PTL DEF Spec, GaugeAges
=============================================================================
