SPECIFICATION Spec
CONSTANTS
  Tools = {t1, t2}
  Secrets = {s1}
  Nonces = {n1, n2}
  Auditors = {a1}
  Prices = {p1}
  Quotas <- MCQuotas
  MaxUint = 2
  TreeCapacity = 2
  Clients = {c1, c2}
  None = None
SYMMETRY MCSymmetry
INVARIANT HistoryIsEveryTree
PROPERTY OnlyRacesLose
PROPERTY ImplementsContract
