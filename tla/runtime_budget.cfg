\* One turn of each role: the coder's cost is only known after its turn.
SPECIFICATION Spec
CONSTANTS
  MaxTurns = 5
  MaxRounds = 1
  MaxBudget = 1
  MaxActions = 1
  MaxCost = 2
INVARIANTS ExecutionWithinBudget
CHECK_DEADLOCK FALSE
