\* Two requirements with one possible ground each, one claim and one reason.
SPECIFICATION FairSpec
CONSTANTS
  Requirements = {r1, r2}
  Grounds = {g}
  Claims = {c}
  Reasons = {busy}
  Prices = {1, 2}
  MaxCost = 3
INVARIANTS EvaluatedIsConfirmed ReportIsTrue
PROPERTIES RunEnds
CHECK_DEADLOCK FALSE
