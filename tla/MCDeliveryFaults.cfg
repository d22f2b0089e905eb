CONSTANTS
  b1 = b1
  e1 = e1
  NoEnv = NoEnv
  Envs = {e1}
  Biots = {b1}
  NameOf <- MCNameOf
  ChangesAsked <- MCStartStopDestroy
  InitialStates = {"running", "stopped"}
  StatusesAsked = {}
  Capacities = {1}
  ReportsHeard = {}
  MaxRevision = 2
  MaxConnections = 1
  MaxQueue = 1
  MaxFailures = 1
  MaxCrashes = 1
  LastCrash = 1
SPECIFICATION DeliverySpec
CONSTRAINT MCCrashOrRevision
PROPERTIES
  BackoffIsServed
  ActionsFollowJournal
  FailureBlamesItsRevision
CHECK_DEADLOCK FALSE
