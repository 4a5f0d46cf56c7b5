CONSTANTS
  Row = {r1, r2}
  Proc = {p1, p2}
  Enabled = {p1, p2}
  Steady = {p1, p2}
  Token = {t1, t2, t3, t4}
  Null = Null
  BatchSize = 2
  ClaimTimeout = 1
  MaxAttempts = 2
  BackoffBase = 2
  BackoffMax = 2
  Skew <- NoSkew
  Horizon = 0
  MaxFaults = 1
SPECIFICATION Spec
SYMMETRY Symmetry
INVARIANTS LeaseIntact PublishedWasDelivered
PROPERTIES OnlyTheHolderSettles
