\* The Supabase audit sink: what a resolved promise tells its caller.
SPECIFICATION FairSpec
CONSTANTS
  MaxRecords = 3
  MaxControlCalls = 1
  MaxQueueSize = 2
  MaxBatchSize = 1
  MaxAttempts = 2
  OverflowPolicy = "fail_closed"
  DeliveryMode = "must_accept"
INVARIANT ResolvedDelivered
CHECK_DEADLOCK FALSE
