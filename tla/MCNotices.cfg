SPECIFICATION NoticesSpec
CONSTANTS
  Clients = {c1, c2}
  ScannerOK = TRUE
  Leftover = {TRUE, FALSE}
  MaxStarts = 3
  Client = {c1}
  Nobody = Nobody
  Channel <- MCChannel
  Info <- MCInfo
  StartList <- MCSchedules
  Entry <- MCEntry
  Parsed <- MCParsed
  WhiteChoices <- MCWhite
  BlackChoices <- MCBlack
  MaxEdits = 0
  Schedules <- MCSchedules
  MaxLast = 1
INVARIANTS
  NoticesInv
PROPERTIES
  EndReported
  EpgTold
