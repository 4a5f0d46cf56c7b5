SPECIFICATION Spec
CONSTANTS
  Request = {r}
  u = u
  k = k
  read = read
  write = write
  Principal = {u, k}
  Permission = {read, write}
  KindOf <- MCKindOf
  TenantOf <- MCTenantOf
  Route <- AllRoutes
  None = None
  Nothing = Nothing
  Forged = Forged
  TTL = 1
  Skew = 1
  MaxTime = 2
  MaxChanges = 1
INVARIANTS WithinRevocationWindow NobodyIsMisnamed AnonymousRoutesAreListed RefusalsAreTrue
