SPECIFICATION SessionSpec
CONSTANTS
  Clients = {c1}
  ScannerOK = TRUE
  Leftover = {TRUE}
  MaxStarts = 3
  Ops = {"Login", "EnableStatus", "Ping", "Setup", "Invalidate", "Open", "Close", "Seek", "Status", "RecOpen", "RecClose", "RecBlock", "RecInfo", "ScanQuery", "ScanStart", "ScanStop", "OsdConnect", "OsdDisconnect", "HitKey", "Garbage"}
  Kinds = {"message"}
  MaxRequests = 2
  MaxQueue = 1
INVARIANTS
  SessionInv
PROPERTIES
  ImplementsService
  RequestServed
  GoneEnds
