CONSTANTS
  Request = {r1, r2}
  Id = {i1, i2, i3}
  None = None
  Tenant = {t}
  exposeInternalErrors = FALSE
SPECIFICATION Spec
SYMMETRY Symmetry
INVARIANTS OneIdPerRequest InFlightIsExact CountedAsAnswered ReportsMatchCounts
