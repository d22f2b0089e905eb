CONSTANTS
  b1 = b1
  e1 = e1
  NoEnv = NoEnv
  Envs = {e1}
  Biots = {b1}
  NameOf <- MCNameOf
  ChangesAsked <- MCDestroy
  InitialStates = {"running"}
  StatusesAsked = {}
  Capacities = {1}
  ReportsHeard = {}
  MaxRevision = 2
  MaxConnections = 2
  MaxQueue = 1
  MaxFailures = 0
  MaxCrashes = 0
  LastCrash = 1
SPECIFICATION DeliverySpec
INVARIANTS
  DestructionNotForgotten
CHECK_DEADLOCK FALSE
