CONSTANTS
  t1 = t1
  t2 = t2
  a1 = a1
  a2 = a2
  n1 = n1
  regulator = regulator
  Tools <- MCTools
  Secrets <- MCSecrets
  Nonces <- MCNonces
  Auditors <- MCAuditors
  Prices <- MCPrices
  Quotas <- MCQuotas
  MaxUint = 3
  TreeCapacity = 2
  MaxAudited = 2
SPECIFICATION Spec
SYMMETRY Symmetry
INVARIANT ContractInv
INVARIANT SpentCallsAreEntitled
INVARIANT PublicRecordIsWhole
PROPERTY RecordsArePermanent
PROPERTY ImplementsPassBudget
