CONSTANTS
  Caller = {c1, c2}
  Exch = {e1, e2}
  Null = Null
  Lifetimes = {1, 3}
  Skew = 1
  Timeout = 1
  MaxEra = 1
  MaxFaults = 2
SPECIFICATION FairSpec
INVARIANTS OneExchange RetryIsFresh
PROPERTIES CachedTokenIsLive TokenAgain
