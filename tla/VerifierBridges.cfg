SPECIFICATION Spec
CONSTANTS
  c1 = c1
  c2 = c2
  i1 = i1
  i2 = i2
  t1 = t1
  t2 = t2
  s1 = s1
  s2 = s2
  p1 = p1
  p2 = p2
  p3 = p3
  prod = prod
  test = test
  none = none
  NoCall = NoCall
  NoIdentity = NoIdentity
  Calls = {c1, c2}
  Backends = {prod, test, none}
  Authoritative = {prod}
  Unavailable = none
  Wirings <- MCWirings
  MaxInputCount = 3
  MaxInputsSize = 3
  MaxInputSize = 2
  Intents = {i1, i2}
  Terms = {t1, t2}
  ZkRequests <- MCZkRequests
  ZkResults <- MCZkResults
  Payments <- MCPayments
  MaxActive = 1
  MaxTotal = 2
  Retention = 1
  MaxTime = 1
  MaxBirths = 2
  MaxAsks = 3
  Floors = {i1, i2}
  Signers = {s1, s2}
  FloorRequests <- MCFloorRequests
  FloorResults <- MCFloorResults
  Signatures = {"v1"}
  SignResults <- MCSignResults
  MaxFloors = 1
  FloorTtl = 1
  MaxFloorTime = 1
  MaxFloorAsks = 3
  Taps = {0, 2}
  Proofs = {p1, p2}
  ProofRequests <- MCProofRequests
  ProofResults <- MCProofResults
  MaxHeight = 1
  MaxRetained = 1
  MaxTombstones = 1
  ProofTtl = 1
  TombstoneTtl = 1
  MaxProofTime = 2
  MaxProofAsks = 3
SYMMETRY CallSymmetry
INVARIANTS
  TypeOK
  EvidenceSound
  SignaturesSound
  LinesSound
  ClaimsHeld
  CapacityHeld
PROPERTIES
  EvictionSafe
  IdentityHeld
  ImplementsIntentLedger
CHECK_DEADLOCK FALSE
