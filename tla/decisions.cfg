\* Every input of the bounded sets, for each deciding function.
SPECIFICATION Spec
CONSTANTS
  ConfidenceSteps = 2
  None = None
  Fraction = 2
  Digits = 2
  Tolerance = 50
  Spellings <- MCSpellings
  Unlimited = Unlimited
INVARIANTS  StaleSelectionsAreRefused SectionsAgree PaidFusionIsReported CloseoutIsEarned FallbackOnlyUnanswered QuorumCountsOwnAnswers EstimateCoversCalls GeneratedConfigPassesDoctor AcceptedCommanderSelects
CHECK_DEADLOCK FALSE
