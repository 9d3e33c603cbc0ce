SPECIFICATION FairSpec
CONSTANTS
  r1 = r1
  r2 = r2
  Requests = {r1, r2}
  Nobody = Nobody
  MaxMutations = 2
  MaxFaults = 1
INVARIANTS
  TypeOK
  OneCommitPerGeneration
  AckedDurable
  ReadsCommitted
PROPERTIES
  ImplementsCommitLog
  RequestsReturn
