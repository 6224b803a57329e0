SPECIFICATION FairSpec
CONSTANTS
  ImageChunks = 2
  OTA_GH_ATTEMPTS = 2
INVARIANTS
  AlwaysBootable
  EngineHasUser
PROPERTIES
  OnlyWholeImageSelected
  InstallEnds
