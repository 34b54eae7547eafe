CONSTANTS
  first = first
  second = second
  Auths <- MCAuths
  MaxRequests = 3
SPECIFICATION Spec
SYMMETRY Symmetry
CHECK_DEADLOCK FALSE
INVARIANT FailedMovedNoFunds
