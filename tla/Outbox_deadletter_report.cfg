CONSTANTS
  Row = {r1}
  Proc = {p1, p2}
  Enabled = {p1, p2}
  Steady = {p1, p2}
  Token = {t1, t2, t3}
  Null = Null
  BatchSize = 1
  ClaimTimeout = 1
  MaxAttempts = 2
  BackoffBase = 1
  BackoffMax = 1
  Skew <- NoSkew
  Horizon = 0
  MaxFaults = 0
SPECIFICATION Spec
INVARIANTS DeadLetterReportIsTrue
