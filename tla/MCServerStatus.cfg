SPECIFICATION MCStatusSpec
CONSTANTS
  Clients = {c1}
  ScannerOK = TRUE
  Leftover = {TRUE}
  MaxStarts = 1
  Ops = {"Login", "EnableStatus", "ScanStart"}
  Kinds = {"channels"}
  MaxRequests = 3
  MaxQueue = 0
  KindOrder <- List
  Timed = {"channels"}
  MaxChanges = 1
INVARIANTS
  StatusInv
PROPERTIES
  ChangeReaches
  DisconnectedRemoved
