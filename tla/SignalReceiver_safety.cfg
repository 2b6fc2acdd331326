SPECIFICATION Spec
CONSTANTS
  Thread = {t1, t2, t3}
  Context = {c1, c2}
  Receiver = {r1, r2}
  None = None
  MaxSubmits = 3
  Batch = {1, 2}
SYMMETRY Symmetry
INVARIANTS
  QueuesConsistent
  NoAssertionFails
  NoSubmitLost
