SPECIFICATION FairLanesSpec
CONSTANTS
  p1 = p1
  p2 = p2
  p3 = p3
  t1 = t1
  t2 = t2
  Callers = {p1, p2, p3}
  Threads = {t1, t2}
  LaneCapacity = 1
  PrimaryCapacity = 1
  TerminalCapacity = 2
  Nobody = Nobody
  x = x
  y = y
  z = z
  Roots = {x, y, z}
  NoScan = NoScan
  MaxScans = 3
  RequestCapacity = 2
  MaxCarriedRequests = 1
  MaxUpdates = 1
INVARIANTS
  LanesTypeOK
  SlotIsHonest
  PressureIsExact
  StoppedOnlyWhenDrained
  CancelWithinOneChunk
PROPERTIES
  BacklogIsServed
  SleepersWake
  NoOvertakingOfKnownEvents
  ImplementsStream
  
CHECK_DEADLOCK FALSE
