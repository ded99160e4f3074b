SPECIFICATION FairSpec
CONSTANTS
  Threads = {t1, t2}
  None = None
  Unit = 3
  Rate = 2
  MaxBucket = 4
  Requests = 3
  MaxLag = 2
INVARIANT ReturnQuota
PROPERTIES EveryCallerServed QuotaSpec
