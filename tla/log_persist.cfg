SPECIFICATION FairSpec
CONSTANTS
  Readers <- TwoReaders
  Window = 2
  LOG_PERSIST_MAX_BYTES = 1
  MaxRead = 2
  MaxTotal = 3
  MaxSessions = 3
INVARIANTS
  DisabledTouchesNothing
  FlushOwnsItsFile
  LastLogSurvivesOneTry
  StateSaved
PROPERTIES
  DisableReturns
  VanishedTabReleased
