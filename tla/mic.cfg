SPECIFICATION FairSpec
CONSTANTS
  MaxPlugs = 2
  STALL_CHECKS = 3
  CountWrap = 3
  ChunksPerInterval = 2
INVARIANTS
  ReaderIsSound
  ActiveMeansMic
PROPERTIES
  WatchdogPatient
  DisconnectRestarts
  WedgeRestarts
