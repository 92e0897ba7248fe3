\* The OTLP telemetry sink: best effort, drop oldest.
SPECIFICATION FairSpec
CONSTANTS
  MaxRecords = 3
  MaxControlCalls = 1
  MaxQueueSize = 2
  MaxBatchSize = 1
  MaxAttempts = 2
  OverflowPolicy = "drop_oldest"
  DeliveryMode = "best_effort"
INVARIANTS AttemptsBoundCopies FirstAttemptsInOrder
PROPERTIES RecordsSettle ImplementsLedger
CHECK_DEADLOCK FALSE
