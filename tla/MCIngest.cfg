SPECIFICATION FairSpec
CONSTANTS
  MaxVlanTags = 2
  MaxIpv6ExtHeaders = 3
  MaxGtpuExts = 2
  MaxMscc = 2
  MaxMsgLen = 2000
  MeterRingSize = 2
  GyRingSize = 2
  SourceKinds = {"replay", "linux", "bpf"}
  LoopWidth = 4
  BatchSize = 2
  MaxPackets = 4
  Configs <- MCConfigs
  Replays <- MCReplays
  LivePackets <- MCLivePackets
  Memory <- MCMemory
INVARIANTS PacketsAccounted MeteredAsBuilt GyAsBuilt ReplayExact
PROPERTIES GtpuExact ViewsInside ReplayEnds
CHECK_DEADLOCK FALSE
