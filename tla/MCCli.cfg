\* A command that has ended is not followed by another.
CONSTANTS
  e1 = e1
  NoEnv = NoEnv
  Envs = {e1}
  Biots = {1, 2}
  NameOf <- MCNameOf
  ChangesAsked = {}
  InitialStates = {"running"}
  StatusesAsked = {"abandoned"}
  Capacities = {2}
  ReportsHeard <- MCReports
  MaxRevision = 3
  Commands <- MCCommands
  Names = {"name"}
  PageSize = 1
  MaxValues = 1
  OthersAsk <- MCOthersAsk
  Reported = {1}
SPECIFICATION CliSpec
INVARIANTS
  OneLiveOperation
  NothingAwaitsAbandonedNode
  ListingComplete
  ResolvesUniquely
  SuccessIsEarned
  StartsWithValues
PROPERTY
  EndedOperationsStay
CHECK_DEADLOCK FALSE
