CONSTANTS
  n1 = n1
  n2 = n2
  alice = alice
  bob = bob
  Payments <- MCPayments
  Tools <- MCTools
  TicksPerSecond = 2
  MaxTime = 7
  MaxRequests = 3
SPECIFICATION Spec
CHECK_DEADLOCK FALSE
INVARIANT NonceSettlesAtMostOnce
