SPECIFICATION Spec
CONSTANTS
  s1 = s1
  Services = {s1}
  Windows <- ScaledWindows
  Graces = {1, 3}
  Lifetimes = {0, 2, 5}
  MaxTime = 6
  MaxGeneration = 2
INVARIANT
  EveryThresholdMarked
CHECK_DEADLOCK FALSE
