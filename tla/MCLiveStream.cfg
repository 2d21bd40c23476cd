SPECIFICATION Spec
SYMMETRY Symmetry
CONSTANTS
  Buffers = {b1, b2}
  NoBuffer = NoBuffer
  PlayRecording = TRUE
  MaxFill = 1
  MaxSeeks = 1
  MaxVersion = 1
  NoDataTime = 1
  EofTime = 2
  LongTime = 3
INVARIANTS
  TypeOK
  ReceiverHasBuffer
  NothingLeaks
  DemuxerHasBuffer
  SerialKept
PROPERTIES
  PreemptionSeen
  DrainedBeforeShutdown
