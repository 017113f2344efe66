SPECIFICATION TablesSpec
CONSTANTS
  c1 = c1
  r1 = r1
  r2 = r2
  r3 = r3
  r4 = r4
  s1 = s1
  s2 = s2
  s3 = s3
  Capabilities = {c1}
  Requests = {r1, r2, r3, r4}
  Scopes = {s1, s2, s3}
  Domains = {"Storage"}
  NoRequest = NoRequest
  NoScope = NoScope
  Never = Never
  NoCadence = NoCadence
  ClassOf <- MCClass
  DomainOf <- MCDomain
  ScopeBytes <- MCScopeBytes
  InitialCadence <- MCInitialCadence
  Cadences <- MCCadences
  Lease = 1
  Retry = 1
  StalledLifetime = 1
  SubmitLag = 1
  TargetLimit = 2
  TargetLimitPerCapability = 2
  TargetLimitPerDomain = 2
  ScopeByteLimit = 3
  PermitLimit = 4
  ControlReserve = 1
  d1 = d1
  d2 = d2
  e1 = e1
  Disks = {d1, d2, e1}
  DeviceOf <- MCDeviceOf
  NoDisk = NoDisk
  MaxJobs = 1
  Retention = 0
  MaxGeneration = 2
  MaxTableRevision = 4
  MaxCall = 1
  MaxBatches = 2
SYMMETRY MCSymmetry
INVARIANTS
  TablesTypeOK
  ScopeIndexExact
  TargetBudgets
  PermitBudget
  RevisionNamesOneTable
  ReportsStayWithTheirJob
PROPERTIES
  OwnersLeaveByPermit
  NoOwnerSwap
  StallBeforeAbandon
  StartedIsTracked
