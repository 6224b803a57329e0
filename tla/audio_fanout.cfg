SPECIFICATION FairFanSpec
CONSTANTS
  Readers = {1, 2}
  RingSamples = 3
  Packet = 2
  Chunks = {1, 2}
  Wrap = 8
INVARIANTS
  StreamIntact
PROPERTIES
  VanishedPreviewReleased
