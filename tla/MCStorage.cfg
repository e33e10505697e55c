SPECIFICATION MCSpec
CONSTANTS
  Threads = {t1, t2}
  Worker = worker
  Sizes = {1, 2}
  SegmentSize = 3
  BatchSize = 2
  MaxLsn = 6
INVARIANTS DurabilityIsTrue AllocatorSound FlushIsDurable PoolCoherent OutcomesKept
PROPERTIES LogReadBack FlushReturns
