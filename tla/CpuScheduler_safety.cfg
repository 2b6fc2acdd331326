SPECIFICATION Spec
CONSTANTS
  Share = {s1, s2}
  Idle = Idle
  None = None
  MaxPrio = 1
  Quota = 3
  Fill = 1
  Quotas = {0, 1, 2}
  QuotaSum = 3
SYMMETRY Symmetry
INVARIANTS
  ListsConsistent
  HeadIsBest
  QuotaLimitsClaims
  QuotaGuaranteed
