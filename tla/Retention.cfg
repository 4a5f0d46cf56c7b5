CONSTANTS
  Row = {r1, r2}
  Proc = {p1, p2, p3}
  Scheduled = {p1, p2}
  Threshold = 0
  Absent = Absent
  MaxFaults = 1
SPECIFICATION FairSpec
INVARIANTS PurgedMeansGone LiveRowKeepsItsObject
PROPERTIES SuccessIsEarned DueRowsArePurged StalledSweepAlerts
