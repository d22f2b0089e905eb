\* An owner that has used up its streams and a quiet node leave nothing to do.
CONSTANTS
  o1 = o1
  Owners = {o1}
  MaxPerBiot = 1
  MaxRevision = 2
  MaxStreams = 2
  MaxConnections = 2
  MaxLost = 1
  MaxQueue = 1
  MaxDisturbances = 2
SPECIFICATION MCAccessSpec
INVARIANTS
  EnforcedMeansClosed
  SkippedOwnersEnd
  NoForgottenClose
  WaitingIsWoken
PROPERTIES
  WithdrawnStreamsClose
  WithdrawalIsApplied
CHECK_DEADLOCK FALSE
