\* Queries and reads with Redis failures and a restart.
SPECIFICATION Spec
CONSTANTS
  Trace = {t1, t2, t3}
  Capacity = 2
  Reader = {d1}
  RedisConfigured = TRUE
  MaxRestarts = 1
  MaxReads = 2
INVARIANTS
  CacheBounded
  EvictionLedger
  LeastRecentlyUsed
  AnsweredIsDurable
  CountedOnce
PROPERTY NoFalseMiss
