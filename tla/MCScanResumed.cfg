SPECIFICATION ScanSpec
CONSTANTS
  x = x
  y = y
  Roots = {x, y}
  NoScan = NoScan
  MaxScans = 2
  RequestCapacity = 1
  MaxCarriedRequests = 1
  MaxUpdates = 1
INVARIANT SnapshotsNameTheirScan
CHECK_DEADLOCK FALSE
