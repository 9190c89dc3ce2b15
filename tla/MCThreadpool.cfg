\* Two workers with queues of one item, and waves of up to three items, one fewer
\* than they can take in while the issuer has pool->sem; calls of two threads.
SPECIFICATION PooledSpec
CONSTANTS
  NumWorkers = 2
  Depth = 1
  MaxItems = 3
  MaxBatches = 2
  Spurious = FALSE
  Callers = {t1, t2}
INVARIANTS OnePoolUser WorkHasCaller CountsOutstanding WaveIsComplete AbandonSeen
PROPERTIES  DestroyReturns
\* A thread that waits for a worker whose queue was popped waits for ever.
CHECK_DEADLOCK FALSE
