CONSTANTS
  p1 = p1
  p2 = p2
  r1 = r1
  r2 = r2
  m1 = m1
  Instances = {p1, p2}
  RealRows = {r1, r2}
  MockRows = {m1}
  SettledRows = {r1, r2, m1}
  CapReal = 1
  CapMock = 1
  c1 = c1
  c2 = c2
  c3 = c3
  Clients = {c1, c2, c3}
  Proxies <- MCProxies
  TRUSTED_PROXY_HOPS = 2
  MaxForged = 1
  Limit = 1
  Window = 3
  TicksPerSec = 2
  MaxBuckets = 1
  MaxTime = 5
  treasury = treasury
  stranger = stranger
  cheapTool = cheapTool
  dearTool = dearTool
  schema1 = schema1
  schema2 = schema2
  slug1 = slug1
  absent = absent
  Slugs = {slug1}
  Publisher = treasury
  Strangers = {stranger}
  Manifests = {cheapTool, dearTool}
  Schemas = {schema1, schema2}
  MaxTxs = 3
SPECIFICATION ServerSpec
CHECK_DEADLOCK FALSE
INVARIANT LedgerInv
INVARIANT LimitInv
INVARIANT RegistryInv
PROPERTY SelfHeals
