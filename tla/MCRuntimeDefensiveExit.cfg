SPECIFICATION RuntimeSpec
CONSTANTS
  c1 = c1
  c2 = c2
  r1 = r1
  r2 = r2
  r3 = r3
  r4 = r4
  r5 = r5
  s1 = s1
  Capabilities = {c1}
  Requests = {r1, r2, r3, r4, r5}
  Scopes = {}
  Domains = {"Storage"}
  NoRequest = NoRequest
  NoScope = NoScope
  NoCapability = NoCapability
  Never = Never
  NoCadence = NoCadence
  ClassOf <- MCClass
  DomainOf <- MCDomain
  ScopeBytes <- MCScopeBytes
  InitialCadence <- MCInitialCadence
  Cadences = {NoCadence}
  TrackingOf <- MCCapabilityTracking
  Scheduled = {}
  LaneCapacity = 1
  PrimaryCapacity = 1
  TerminalHealths = {"Success"}
  Lease = 1
  Retry = 1
  StalledLifetime = 1
  SubmitLag = 0
  TargetLimit = 1
  TargetLimitPerCapability = 1
  TargetLimitPerDomain = 1
  ScopeByteLimit = 3
  PermitLimit = 3
  ControlReserve = 1
SYMMETRY MCSymmetry
INVARIANT DefensiveExitIsUnreachable
