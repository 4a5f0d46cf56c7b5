CONSTANTS
  Row = {r1, r2}
  Proc = {p1, p2}
  Secret = {a, b}
  Key = {k1, k2}
  Junk = Junk
  Refused = Refused
  Absent = Absent
  MaxCalls = 2
  MaxDamages = 2
  Probe = {q1, q2}
  Check = {c1, c2}
  ReadinessChecks = {c1}
  StartupChecks = {c1, c2}
  Node = {n1, n2}
  Property = {note, password}
  Sensitive = {password}
  Width = 1
  MAX_SCRUB_DEPTH = 3
  Name = {contentType, authorization}
  REPORTABLE_HEADER_NAMES = {contentType}
  Part = {extra}
SPECIFICATION ProcessSpec
CHECK_DEADLOCK FALSE
INVARIANTS AnswersAreFresh LatchHolds ReportIsScrubbed
PROPERTIES ProbesAreAnswered ReadIsExact
