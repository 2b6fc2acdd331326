SPECIFICATION Spec
CONSTANTS
  Share = {s1}
  Idle = Idle
  None = None
  MaxPrio = 0
  Quota = 3
  Fill = 1
  Quotas = {0, 1, 2}
  QuotaSum = 3
INVARIANT QuotaLimitsTime
