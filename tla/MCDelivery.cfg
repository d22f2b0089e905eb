CONSTANTS
  b1 = b1
  e1 = e1
  NoEnv = NoEnv
  Envs = {e1}
  Biots = {b1}
  NameOf <- MCNameOf
  ChangesAsked <- MCStopDestroy
  InitialStates = {"running"}
  StatusesAsked = {"abandoned"}
  Capacities = {1}
  ReportsHeard = {}
  MaxRevision = 2
  MaxConnections = 2
  MaxQueue = 1
  MaxFailures = 0
  MaxCrashes = 1
  LastCrash = 1
SPECIFICATION DeliverySpec
CONSTRAINT MCCrashOrAbandon
INVARIANTS
  NoProtocolError
  AcceptedIsTruthful
PROPERTIES
  ReceiptIsLast
CHECK_DEADLOCK FALSE
