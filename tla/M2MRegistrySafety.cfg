SPECIFICATION Spec
CONSTANTS
  p1 = p1
  p2 = p2
  Procs = {p1, p2}
  Free = Free
  Dead = Dead
  Configured = {p1, p2}
  MaxMutations = 2
  MaxFaults = 2
INVARIANTS
  TypeOK
  OneWriter
  MarkerComplete
  OneSuccessPerGeneration
  AckedDurable
  ReadsCommitted
  AbandonedMarkerRecoverable
PROPERTIES
  ImplementsCommitLog
