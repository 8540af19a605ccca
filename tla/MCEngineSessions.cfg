SPECIFICATION Spec
CONSTANTS
  Imsis = {i1, i2}
  Teids = {1, 2}
  RatingGroups = {0}
  Events <- SessionEvents
  GyOctets = {1}
  MaxSubscribers = 2
  TeidCapacity = 4
  SinkCapacity = 2
  QfiTag = 10
  UnsetBucket = 99
  EmptyKey = 2
  LearnUnknown = FALSE
  ReportInterval = 0
  VolumeThreshold = 2
  SweepPeriod = 0
  SweepFraction = 2
  MaxEvents = 3
  MaxGyEvents = 0
  MaxControlOps = 3
INVARIANTS TypeOK BindingSound UsageConserved DropsCounted
PROPERTY OnlyActiveCharged
SYMMETRY ImsiSymmetry
