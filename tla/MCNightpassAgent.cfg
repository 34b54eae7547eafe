CONSTANTS
  tool = tool
  v1 = v1
  v2 = v2
  auditor = auditor
  pub = pub
  out = out
  k1 = k1
  k2 = k2
  k3 = k3
  Tools <- MCTools
  Secrets <- MCSecrets
  Nonces <- MCNonces
  Auditors <- MCAuditors
  Prices <- MCPrices
  Quotas <- MCQuotas
  MaxUint = 4
  TreeCapacity = 4
  Visitors <- MCVisitors
  Tool = tool
  DemoQuota = 2
  Auditor = auditor
  PublisherKey = pub
  OutsideKey = out
  FreshKeys <- MCFreshKeys
  MaxRequests = 3
SPECIFICATION FairAgentSpec
INVARIANT AgentInv
INVARIANT ProvenWithOwnSecret
INVARIANT CounterTracksChain
PROPERTY EveryRequestAnswered
PROPERTY ImplementsPassService
