SPECIFICATION FairSpec
CONSTANTS
  Imsis = {i1, i2}
  Teids = {1, 2}
  RatingGroups = {0}
  Events <- SessionEvents
  GyOctets = {1}
  MaxSubscribers = 2
  TeidCapacity = 4
  SinkCapacity = 2
  QfiTag = 10
  UnsetBucket = 99
  EmptyKey = 2
  LearnUnknown = FALSE
  ReportInterval = 1
  VolumeThreshold = 0
  SweepPeriod = 1
  SweepFraction = 2
  MaxEvents = 2
  MaxGyEvents = 0
  MaxControlOps = 2
PROPERTY UsageEventuallyReported
