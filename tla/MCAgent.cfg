\* A connection that has been served is over.
CONSTANTS
  Lines <- MCLines
  InputFrames <- MCFrames
  Exits <- MCExits
  MaxOutput = 2
  MaxInput = 2
  Window = 1
  TypeAhead = 1
  MaxBytes = 2
  PipeSize = 1
SPECIFICATION FairAgentSpec
INVARIANTS
  NoShellLeft
  ExitFrameSent
  AnsweredAsAsked
  TailDelivered
PROPERTIES
  ImplementsChannel
  LeavesNothing
CHECK_DEADLOCK FALSE
