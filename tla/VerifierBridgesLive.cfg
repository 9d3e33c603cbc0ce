SPECIFICATION FairSpec
CONSTANTS
  c1 = c1
  c2 = c2
  i1 = i1
  i2 = i2
  t1 = t1
  t2 = t2
  s1 = s1
  s2 = s2
  p1 = p1
  p2 = p2
  p3 = p3
  prod = prod
  test = test
  none = none
  NoCall = NoCall
  NoIdentity = NoIdentity
  Calls = {c1, c2}
  Backends = {prod, test, none}
  Authoritative = {prod}
  Unavailable = none
  Wirings <- LiveWirings
  MaxInputCount = 3
  MaxInputsSize = 3
  MaxInputSize = 2
  Intents = {i1}
  Terms = {t1}
  ZkRequests <- LiveZkRequests
  ZkResults <- LiveZkResults
  Payments <- LivePayments
  MaxActive = 1
  MaxTotal = 2
  Retention = 1
  MaxTime = 0
  MaxBirths = 1
  MaxAsks = 3
  Floors = {i1, i2}
  Signers = {s1}
  FloorRequests <- LiveFloorRequests
  FloorResults <- LiveDigestResults
  Signatures = {"v1"}
  SignResults <- LiveSignResults
  MaxFloors = 1
  FloorTtl = 1
  MaxFloorTime = 0
  MaxFloorAsks = 3
  Taps = {0}
  Proofs = {p1, p2}
  ProofRequests <- LiveProofRequests
  ProofResults <- LiveDigestResults
  MaxHeight = 1
  MaxRetained = 1
  MaxTombstones = 1
  ProofTtl = 1
  TombstoneTtl = 1
  MaxProofTime = 1
  MaxProofAsks = 3
PROPERTIES
  CallsReturn
CHECK_DEADLOCK FALSE
