SPECIFICATION Spec
CONSTANTS
  c1 = c1
  c2 = c2
  theme = theme
  units = units
  a = a
  b = b
  s1 = s1
  s2 = s2
  s3 = s3
  p1 = p1
  p2 = p2
  t1 = t1
  t2 = t2
  Clients = {c1, c2}
  Host = Host
  Fields = {theme, units}
  Values = {a, b}
  Default <- MCDefault
  CommandCapacity = 1
  PublicationCapacity = 1
  MaxEdits = 2
  MaxFaults = 2
  Series = {s1, s2, s3}
  MaxTrackedSeries = 2
  MaxPendingSeries = 2
  MaxPendingSamples = 2
  MaxPendingBytes = 5
  KeyBytes = 2
  SampleBytes = 1
  MaxRevision = 2
  MaxRecords = 4
  MaxRows = 2
  Pids = {p1, p2}
  MaxGenerations = 2
  Targets = {t1, t2}
  MaxAsks = 3
INVARIANTS ConfigTypeOK RevisionNamesOneSnapshot
INVARIANTS AccountingIsExact RowsIncrease TrackedIsBacked
INVARIANTS OneWriter ShownAnswerIsCurrent
PROPERTIES GoodBackupIsKept ClientsConverge DamageIsAnnounced WorkerStops ImplementsRegister
PROPERTY LoadingEnds
CHECK_DEADLOCK FALSE
