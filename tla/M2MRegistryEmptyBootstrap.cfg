SPECIFICATION Spec
CONSTANTS
  p1 = p1
  p2 = p2
  Procs = {p1, p2}
  Free = Free
  Dead = Dead
  Configured = {}
  MaxMutations = 0
  MaxFaults = 2
INVARIANT
  AbandonedMarkerRecoverable
