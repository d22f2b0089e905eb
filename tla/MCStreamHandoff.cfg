\* Callers that have ended and connections that are used up leave nothing to do.
CONSTANTS
  s1 = s1
  Streams = {s1}
  MaxConnections = 3
  MaxRestarts = 2
SPECIFICATION FairHandoffSpec
INVARIANTS
  NoSocketLeft
  OneAnswer
PROPERTIES
  OpenEnds
  UnownedStreamEnds
CHECK_DEADLOCK FALSE
