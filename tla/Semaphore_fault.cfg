SPECIFICATION Spec
CONSTANTS
  Thread = {d1, d2, u1}
  Upper = {u1}
  MetaLock = m
  LockId = {d1, d2, u1, m}
  None = None
  Owner = Owner
  Initial = 0
  MaxCnt = 1
INVARIANT NoWakeupLost
