SPECIFICATION FairSpec
CONSTANTS
  Thread = {d1, d2, u1}
  Upper = {u1}
  MetaLock = m
  LockId = {d1, d2, u1, m}
  None = None
  Owner = Owner
  Initial = 0
  MaxCnt = 1
INVARIANTS
  LocksConsistent
  MutualExclusion
  ElementAlive
PROPERTIES
  Implements
  CallsReturn
\* All threads may wait for one that missed its wakeup.
CHECK_DEADLOCK FALSE
