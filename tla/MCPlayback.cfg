SPECIFICATION PlaybackSpec
CONSTANTS
  BufferSize = 19
  TSSize = 2
  Margin = 6
  CacheMax = 5
  Chunks = {2}
  MaxChunk = 2
  EndStep = 3
  ReadsFail = TRUE
  StreamLength = 24
  PacketLength = 2
  BlockMax = 5
  BackStep = 3
  MaxLength = 14
  MaxFiles = 3
  MaxSize = 2
  MaxRequests = 2
INVARIANTS
  PlaybackInv
PROPERTIES
  FileImplementsStream
  FileReaderProgress
  PlayedInOrder
  EndReached
