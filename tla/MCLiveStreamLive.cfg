SPECIFICATION FairDeviceSpec
CONSTANTS
  Buffers = {b1, b2}
  NoBuffer = NoBuffer
  PlayRecording = TRUE
  MaxFill = 1
  MaxSeeks = 0
  MaxVersion = 0
  NoDataTime = 1
  EofTime = 2
  LongTime = 3
PROPERTIES
  StopEnds
  PreemptedEnds
  ReceiverComesBack
