SPECIFICATION Spec
CONSTANTS
  s1 = s1
  Services = {s1}
  Windows <- ScaledWindows
  Graces = {1, 3}
  Lifetimes = {0, 2, 5}
  MaxTime = 7
  MaxGeneration = 4
INVARIANTS
  TypeOK
  RotatedOutRefused
  OneEventPerCrossing
  DeadlinesAnnounced
PROPERTIES
  NoSecretGains
  SomeConsumerSurvives
CHECK_DEADLOCK FALSE
