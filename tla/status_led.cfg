SPECIFICATION Spec
CONSTANTS
  HoldPolls = 2
  WindowPolls = 1
  FlashTicks = 2
  Timeout = 1
  MaxStreams = 1
INVARIANTS
  PressBorrowsLed
  FlashAcknowledged
PROPERTY
  MagentaMeansSilent
