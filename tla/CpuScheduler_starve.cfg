SPECIFICATION FairSpec
CONSTANTS
  Share = {s1, s2}
  Idle = Idle
  None = None
  MaxPrio = 0
  Quota = 2
  Fill = 1
  Quotas = {0, 1}
  QuotaSum = 1
PROPERTY FillsTakeTurns
