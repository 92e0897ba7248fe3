\* The Supabase audit sink: must accept, fail closed.
SPECIFICATION FairSpec
CONSTANTS
  MaxRecords = 3
  MaxControlCalls = 2
  MaxQueueSize = 2
  MaxBatchSize = 2
  MaxAttempts = 2
  OverflowPolicy = "fail_closed"
  DeliveryMode = "must_accept"
INVARIANTS AuditInOrder
PROPERTIES CallersAnswered ImplementsLedger
CHECK_DEADLOCK FALSE
