\* Runs with and without an authority: at most two fix rounds and two actions per
\* coder output, and a turn limit that the second fix round exceeds.
SPECIFICATION FairSpec
CONSTANTS
  MaxTurns = 10
  MaxRounds = 2
  MaxBudget = 2
  MaxActions = 2
  MaxCost = 1
INVARIANTS ReadyIsReviewed ReadyIsReceipted
PROPERTIES EveryRunEnds
CHECK_DEADLOCK FALSE
