SPECIFICATION Spec
CONSTANTS
  LOG_STREAM_BUF_BYTES = 3
  LOG_STREAM_MAX_READERS = 2
  WordSize = 9
  MaxLine = 2
  MaxRead = 2
  MaxTotal = 14
PROPERTIES
  ReadsAreLog
  LogSpec
