SPECIFICATION Spec
CONSTANTS
  cpu0 = cpu0  cpu1 = cpu1  cpu2 = cpu2
  core = core  u1 = u1  u2 = u2  u3 = u3
  Cpu = {cpu0, cpu1}
  PrimaryCpu = cpu0
  CoreThread = {core}
  UserThread = {u1, u2, u3}
  Suspender = core
  Home <- TwoCpus
  Calls = {"delete", "call", "reply"}
  Fadt = {TRUE}
  MaxSuspends = 0
  UintMax = 2147483647
  None = None
INVARIANT ExecutedExists
