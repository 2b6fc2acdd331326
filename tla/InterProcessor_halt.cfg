SPECIFICATION Spec
CONSTANTS
  cpu0 = cpu0  cpu1 = cpu1  cpu2 = cpu2
  core = core  u1 = u1  u2 = u2  u3 = u3
  Cpu = {cpu0, cpu1, cpu2}
  PrimaryCpu = cpu0
  CoreThread = {core}
  UserThread = {u1, u2}
  Suspender = core
  Home <- ThreeCpus
  Calls = {"suspend", "wake", "stop"}
  Fadt = {TRUE}
  MaxSuspends = 1
  UintMax = 2147483647
  None = None
INVARIANT HaltsForSuspend
