CONSTANTS
  n1 = n1
  n2 = n2
  alice = alice
  bob = bob
  Payments <- MCPayments
  Tools <- MCTools
  TicksPerSecond = 2
  MaxTime = 6
  MaxRequests = 3
  s1 = s1
  s2 = s2
  Servers <- MCServers
  Accounts <- MCAccounts
  ChallengeTTL = 1
  SessionTTL = 2
  MaxIssued = 1
  MaxMinted = 2
  MaxVerifies = 2
  LastTick = 2
SPECIFICATION GateSpec
SYMMETRY Symmetry
CHECK_DEADLOCK FALSE
INVARIANT SettledOnceBeforeDeadline
INVARIANT SettledAsAuthorized
INVARIANT BurntOncePerStore
INVARIANT SignInInv
