CONSTANTS
  Call = {c1, c2}
  Interval = 2
  Reach = 2
  Absent = Absent
  MaxFaults = 2
  MaxJumps = 2
  MaxSuppressed = 3
SPECIFICATION FairSpec
INVARIANTS UnenforcedWithCause
PROPERTIES LinesAreTrue EveryCallAnswers LastingOutageIsLogged ShutdownEnds
