SPECIFICATION SharedSpec
CONSTANTS
  Client = {c1, c2}
  Nobody = Nobody
  MaxWindows = 2
  MaxDraws = 2
  MaxAreas = 1
  Reconnects = TRUE
  n1 = n1
  n2 = n2
  Name = {n1, n2}
  Hash <- MCHash
  MaxRequests = 3
  Events <- MCEvents
  ChannelOf <- MCChannelOf
  Found <- MCFound
  Texts = {"all", "other"}
  Channels = {1}
  Odd = {"other"}
  Fields <- MCFields
  Margins = {0}
  OwnMargins = FALSE
  MaxSearch = 1
  MaxTimers = 2
  Channel <- MCChannel
  Info <- MCInfo
  StartList <- MCStartList
  Entry <- MCEntry
  Parsed <- MCParsed
  WhiteChoices <- MCWhite
  BlackChoices <- MCBlack
  MaxEdits = 1
SYMMETRY MCSymmetry
INVARIANTS
  OsdInv
  RecordingsInv
  TimersInv
  FilterInv
PROPERTIES
  NotRecreated
  SortIsStable
CHECK_DEADLOCK FALSE
