SPECIFICATION FairDeviceSpec
CONSTANTS
  Buffers = {b1, b2}
  NoBuffer = NoBuffer
  PlayRecording = FALSE
  MaxFill = 1
  MaxSeeks = 0
  MaxVersion = 1
  NoDataTime = 1
  EofTime = 2
  LongTime = 3
PROPERTIES
  ChangeFollowed
