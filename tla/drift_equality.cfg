\* Up to five observations of a child among ten of its parent.
SPECIFICATION Spec
CONSTANTS
  Precision = 21
  MostChild = 5
  MostParent = 10
INVARIANT EqualityIsWithin
CHECK_DEADLOCK FALSE
