SPECIFICATION Spec
CONSTANTS
  BufferSize = 13
  TSSize = 2
  Margin = 4
  Chunks = {2}
  MaxChunk = 2
  EndStep = 6
  StreamLength = 22
  SyncBytes <- MCSyncBytes
INVARIANTS
  AnythingToRead
