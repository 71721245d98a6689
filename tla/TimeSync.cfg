SPECIFICATION Spec
CONSTANTS
  UsPerMs = 2
  GatewayMaxAge = 6
  MinUnix = 2
  NoAnchor = NoAnchor
  NoRequest = NoRequest
  QueryTimeout = 2
  QueryInterval = 3
  BusyRetry = 1
  ErrorRetry = 2
  AnchorMaxAge = 5
  Slop = 4
  NoMapping = NoMapping
  NoQuery = NoQuery
  LaptopLead = 3
  GatewayLead = 1
  SyncInterval = 3
  MaxTransit = 1
  MaxDelay = 3
  Preempted = 1
  MaxHarm = 1
  Horizon = 11
INVARIANTS TypeOK CaptureTimeAccurate ClockKeptFresh
CHECK_DEADLOCK FALSE
