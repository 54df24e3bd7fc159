SPECIFICATION Spec
CONSTANTS
  PROC_MAX = 4
  Ticks = 8
  Msec = {0, 1, 3}
INVARIANT ReadyExact
PROPERTIES
  SleepsLongEnough
  EveryoneRuns
  ImplementsRoundRobin
