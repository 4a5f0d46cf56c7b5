----------------------------- MODULE MCProcess ------------------------------
(* Three parts of one process that share no state, for TLC: stored secrets,   *)
(* the health endpoints, and the scrubbing of error reports.  No step of one  *)
(* is visible to another, so their interleavings add nothing: each behaviour  *)
(* is one of one part, the others left as they start.                        *)
EXTENDS Encryption

CONSTANTS
  Probe, Check, ReadinessChecks, StartupChecks,
  Node, Property, Sensitive, Width, MAX_SCRUB_DEPTH, Name, REPORTABLE_HEADER_NAMES,
  Part

ASSUME ChecksAssumption == ReadinessChecks \union StartupChecks \subseteq Check

VARIABLES
  acting,
  up, started, asks, pc, result, seenUp, seenDown, late, answered,
  heap, event, report

probes   == <<up, started, asks, pc, result, seenUp, seenDown, late, answered>>
reporter == <<heap, event, report>>

Health == INSTANCE Health
Scrub  == INSTANCE Scrub WITH Key <- Property

ASSUME ScrubConstants == Scrub!ScrubAssumption

ProcessInit ==
  /\ acting \in {"vault", "health", "reporter"}
  /\ Init
  /\ Health!Init /\ (acting = "health" \/ up = {})
  /\ \/ acting = "reporter" /\ Scrub!Init
     \/ acting # "reporter" /\ heap = Absent /\ event = Absent /\ report = Absent

ProcessNext ==
  \/ acting = "vault" /\ Next /\ UNCHANGED <<acting, probes, reporter>>
  \/ acting = "health" /\ Health!Next /\ UNCHANGED <<acting, vars, reporter>>
  \/ acting = "reporter" /\ Scrub!Next /\ UNCHANGED <<acting, vars, probes>>

ProcessSpec == ProcessInit /\ [][ProcessNext]_<<acting, vars, probes, reporter>> /\ Health!Fairness

\* The properties of Health and Scrub, stated there of HealthController and of
\* scrubEvent; decrypt()'s, ReadIsExact, is Encryption's own.
AnswersAreFresh   == Health!AnswersAreFresh
LatchHolds        == Health!LatchHolds
ProbesAreAnswered == Health!ProbesAreAnswered
ReportIsScrubbed  == Scrub!ReportIsScrubbed
=============================================================================
