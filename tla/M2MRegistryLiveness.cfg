SPECIFICATION FairSpec
CONSTANTS
  p1 = p1
  p2 = p2
  Procs = {p1, p2}
  Free = Free
  Dead = Dead
  Configured = {p1}
  MaxMutations = 1
  MaxFaults = 2
PROPERTIES
  FailsClosed
  RecoveryCompletes
  RequestsReturn
