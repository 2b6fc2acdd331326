SPECIFICATION FairSpec
CONSTANTS
  Thread = {t1, t2}
  Context = {c1, c2}
  Receiver = {r1}
  None = None
  MaxSubmits = 3
  Batch = {1, 2}
INVARIANTS
  QueuesConsistent
  NoAssertionFails
  NoSubmitLost
  KillWaitEnds
PROPERTIES
  SubmitsDelivered
  KillsEnd
