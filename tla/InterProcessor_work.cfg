SPECIFICATION FairSpec
CONSTANTS
  cpu0 = cpu0  cpu1 = cpu1  cpu2 = cpu2
  core = core  u1 = u1  u2 = u2  u3 = u3
  Cpu = {cpu0, cpu1}
  PrimaryCpu = cpu0
  CoreThread = {core, u3}
  UserThread = {u1, u2}
  Suspender = core
  Home <- TwoCpus
  Calls = {"tlb", "delete", "wake", "stop", "call"}
  Fadt = {TRUE}
  MaxSuspends = 0
  UintMax = 2147483647
  None = None
INVARIANTS TypeOK RunningExists HandlesOwnException WorkAnnounced
PROPERTY WorkEnds
