CONSTANTS
  t1 = t1
  t2 = t2
  agent = agent
  p1 = p1
  a1 = a1
  p2 = p2
  a2 = a2
  n1 = n1
  n2 = n2
  auditor = auditor
  Tools <- MCTools
  Secrets <- MCSecrets
  Nonces <- MCNonces
  Auditors <- MCAuditors
  Prices <- MCPrices
  Quotas <- MCQuotas
  MaxUint = 3
  TreeCapacity = 3
  SecretKey = agent
  FreshNonces <- MCFreshNonces
  AuditedBy = auditor
  MaxOperations = 4
  CATALOG <- MCCatalog
  DemoPrice = 10
  DemoQuota = 2
  CALLS = 2
  Drawn <- MCDrawn
  DemoAuditor = auditor
  payer1 = payer1
  payer2 = payer2
  cheap = cheap
  dear = dear
  Payers = {payer1, payer2}
  Presentations <- MCPresentations
  Listings = {cheap, dear}
  Price <- MCPrice
  Asks <- MCAsks
  NaN = NaN
  MAX_USD = 2
  Purse = 3
SPECIFICATION ClientSpec
CHECK_DEADLOCK FALSE
INVARIANT CliInv
INVARIANT DemoInv
INVARIANT AlgorandInv
PROPERTY QuotesHeal
