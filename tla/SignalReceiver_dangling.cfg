SPECIFICATION Spec
CONSTANTS
  Thread = {t1, t2}
  Context = {c1}
  Receiver = {r1}
  None = None
  MaxSubmits = 2
  Batch = {1}
PROPERTY KillerCancelled
