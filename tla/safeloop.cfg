\* One call on each client.
SPECIFICATION FairSpec
CONSTANTS
  Requests <- MCRequests
  ByOperator <- MCByOperator
PROPERTIES RefusalsStand CallsSettle ImplementsAuthority
CHECK_DEADLOCK FALSE
