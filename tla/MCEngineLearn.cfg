SPECIFICATION Spec
CONSTANTS
  Imsis = {i1}
  Teids = {1, 2}
  RatingGroups = {11, 99}
  Events <- LearnEvents
  GyOctets = {1}
  MaxSubscribers = 2
  TeidCapacity = 1
  SinkCapacity = 2
  QfiTag = 10
  UnsetBucket = 99
  EmptyKey = 2
  LearnUnknown = TRUE
  ReportInterval = 0
  VolumeThreshold = 0
  SweepPeriod = 0
  SweepFraction = 1
  MaxEvents = 3
  MaxGyEvents = 1
  MaxControlOps = 2
INVARIANTS StatsAgree RecordsBalanced BucketsPureIfBound
