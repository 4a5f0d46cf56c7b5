CONSTANTS
  Row = {r1}
  Proc = {p1, p2}
  Enabled = {p1, p2}
  Steady = {p1}
  Token = {t1, t2, t3}
  Null = Null
  BatchSize = 2
  ClaimTimeout = 1
  MaxAttempts = 2
  BackoffBase = 1
  BackoffMax = 2
  Skew <- SomeSkew
  Horizon = 0
  MaxFaults = 2
SPECIFICATION FairSpec
PROPERTIES RedeliveryHasACause FulfilsContract EveryRowSettles
