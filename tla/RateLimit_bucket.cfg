CONSTANTS
  Call = {c1}
  Interval = 1
  Reach = 0
  Absent = Absent
  MaxFaults = 0
  MaxJumps = 0
  MaxSuppressed = 0
  Request = {r1, r2, r3}
  Null = Null
  Capacity = 5
  Cost = 2
  Lead = 1
  Lag = 2
  Slack = 3
SPECIFICATION BucketSpec
SYMMETRY Symmetry
INVARIANTS RateIsBounded
PROPERTIES NeverStricter
