SPECIFICATION Spec
CONSTANTS
  cpu0 = cpu0  cpu1 = cpu1  cpu2 = cpu2
  core = core  u1 = u1  u2 = u2  u3 = u3
  Cpu = {cpu0, cpu1, cpu2}
  PrimaryCpu = cpu0
  CoreThread = {core, u2}
  UserThread = {u1}
  Suspender = core
  Home <- ThreeCpus
  Calls = {"delete", "suspend"}
  Fadt = {TRUE}
  MaxSuspends = 1
  UintMax = 2147483647
  None = None
INVARIANT WorkAnnounced
