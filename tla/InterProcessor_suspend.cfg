SPECIFICATION FairSpec
CONSTANTS
  cpu0 = cpu0  cpu1 = cpu1  cpu2 = cpu2
  core = core  u1 = u1  u2 = u2  u3 = u3
  Cpu = {cpu0, cpu1, cpu2}
  PrimaryCpu = cpu0
  CoreThread = {core}
  UserThread = {u1, u2}
  Suspender = core
  Home <- IdleCpu
  Calls = {"suspend", "call", "reply"}
  Fadt = {TRUE, FALSE}
  MaxSuspends = 2
  UintMax = 2147483647
  None = None
INVARIANTS StoppedBeforeSuspend BarrierHolds
PROPERTY ResumeEnds
