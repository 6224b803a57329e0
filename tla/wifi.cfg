SPECIFICATION FairSpec
CONSTANTS
  WIFI_MAX_RETRIES = 2
  Timeout = 2
  FallbackEnabled = TRUE
  Togglers = {"button", "httpd"}
  MaxEvents = 2
INVARIANTS
  NoLostReconnect
  SetupApIsLastResort
  NeverStranded
PROPERTIES
  BootEnds
  KeepsTrying
