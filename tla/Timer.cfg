SPECIFICATION FairTimerSpec
CONSTANTS
  Thread = {t1, t2}
  Cpu = Cpu
  Durations = {1, 3, 5}
  UsPerMs = 2
  TicksPerMs = 2
  MaxSlice = 3
  MaxLate = 1
INVARIANTS TimerConsistent
PROPERTIES NeverEarly TimeoutsFire
