SPECIFICATION Spec
CONSTANTS
  t1 = t1  t2 = t2  t3 = t3
  cpu0 = cpu0  cpu1 = cpu1
  Thread = {t1, t2, t3}
  Cpu = {cpu0, cpu1}
  PrimaryCpu = cpu0
  Level <- ThreeLevels
  Affinity <- ServerOnPrimary
  None = None
INVARIANT PausedNotScheduled
