\* Two process calls and an HTTP call share a budget that pays for two of them;
\* a breaker opens after two failures, a call makes at most two attempts.
SPECIFICATION FairSpec
CONSTANTS
  Calls <- MCCalls
  Adapters <- MCAdapters
  AdapterOf <- MCAdapterOf
  Transport <- MCTransport
  Auth <- MCAuth
  Cost <- MCCost
  Limit = 6
  FailureThreshold = 2
  MaxAttempts = 2
INVARIANTS BudgetKept OnlyEarlierCallsRun BreakerCountsOnce AbortedCallYieldsNothing
PROPERTIES NoLaunchAfterAbort EveryCallEnds
CHECK_DEADLOCK FALSE
