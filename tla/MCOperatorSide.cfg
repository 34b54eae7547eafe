CONSTANTS
  first = first
  Auths <- MCAuths
  MaxRequests = 3
  p1 = p1
  p2 = p2
  Processes <- MCProcesses
  Plans <- MCPlans
  Budgets <- MCBudgets
  Cap = 5
  RedisIsReliable = FALSE
  MaxCalls = 3
  ra = ra
  rb = rb
  KeyRoles = {ra, rb}
  MaxKeys = 3
  MaxBaks = 2
  agent = agent
  treasury = treasury
  Holders = {agent, treasury}
  Treasury = treasury
  Buyer = agent
  Routes <- MCRoutes
  StartAlgo = {100, 301}
  FundAlgo = {100}
  FundUsdc = {0, 2}
  TOP_UP = 2
  CallPrice = 1
  FaucetUsdc = 3
  MaxTransfers = 3
  Wallets = {agent, treasury}
  Operator = treasury
  StartCspr = {0, 6, 12}
  Amounts = {2}
  WRAP_GAS = 3
  TRANSFER_GAS = 2
  INSTALL_GAS = 5
  MaxPuts = 2
SPECIFICATION OperatorSpec
SYMMETRY Symmetry
CHECK_DEADLOCK FALSE
INVARIANT OneServicePerPayment
INVARIANT LedgerIsHonest
INVARIANT OkIsOnTheBooks
INVARIANT SpendInv
INVARIANT ScriptsAreHonest
PROPERTY KeysAreKept
