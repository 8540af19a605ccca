SPECIFICATION FairSpec
CONSTANTS
  MaxSubs = 3
  FlowSlots = 3
  Keys = {"a", "b", "c"}
  EventBytes = {0, 1}
  ScanBudget = 3
  SubLimit = 1
  FlowLimit = 2
  DemandTtl = 1
  ClockWidth = 16
  Clients = {"c1", "c2"}
  RecvRounds = 2
  NumberWidth = 256
  FlowsLimit = 2
  SubsLimit = 2
  Workloads <- MCOneClient
PROPERTY ShutdownPrompt
CHECK_DEADLOCK FALSE
