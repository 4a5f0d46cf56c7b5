--------------------------- MODULE OutboxContract ---------------------------
(***************************************************************************)
(* What the outbox promises of each event, whatever replicas, leases and    *)
(* faults lie behind it: delivery at least once, recorded as published only *)
(* when true; a bounded number of recorded failures, each counted once; and *)
(* a final outcome that nothing ever revises.                               *)
(***************************************************************************)
EXTENDS Naturals

CONSTANTS Event, MaxAttempts

VARIABLES outcome,    \* "open" until "published" or "dead_letter"
          failures,   \* failed attempts recorded
          delivered   \* the event has reached its consumer

Init ==
  /\ outcome = [e \in Event |-> "open"]
  /\ failures = [e \in Event |-> 0]
  /\ delivered = [e \in Event |-> FALSE]

\* At least once: a delivery may be repeated, even after the outcome is known.
Deliver(e) ==
  /\ delivered' = [delivered EXCEPT ![e] = TRUE]
  /\ UNCHANGED <<outcome, failures>>

Publish(e) ==
  /\ outcome[e] = "open" /\ delivered[e]
  /\ outcome' = [outcome EXCEPT ![e] = "published"]
  /\ UNCHANGED <<failures, delivered>>

\* A failure with attempts left is counted; any failure may be the last.
Fail(e) ==
  /\ outcome[e] = "open"
  /\ failures' = [failures EXCEPT ![e] = @ + 1]
  /\ \/ failures[e] + 1 < MaxAttempts /\ UNCHANGED outcome
     \/ outcome' = [outcome EXCEPT ![e] = "dead_letter"]
  /\ UNCHANGED delivered

Next == \E e \in Event : Deliver(e) \/ Publish(e) \/ Fail(e)

vars == <<outcome, failures, delivered>>

Spec == Init /\ [][Next]_vars
=============================================================================
