CONSTANTS
  t1 = t1
  t2 = t2
  a1 = a1
  a2 = a2
  n1 = n1
  regulator = regulator
  Tools = {t1}
  Secrets = {a1}
  Nonces <- MCNonces
  Auditors <- MCAuditors
  Prices <- MCPrices
  Quotas = {3}
  MaxUint = 3
  TreeCapacity = 2
  MaxAudited = 3
SPECIFICATION Spec
INVARIANT ConfirmedClaimIsExact
