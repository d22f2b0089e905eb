\* A process that has ended does not go on.
CONSTANTS
  p1 = p1
  p2 = p2
  Procs = {p1, p2}
  AtTerminal = p1
  Rank <- MCRank
  Invocations <- MCInvocations
  Servers = {"s1", "s2"}
  Typed = {"s2", "no url"}
  Tokens = {"t1", "t2"}
  Issued <- MCIssued
  Answers <- MCAnswers
  NotGiven = NotGiven
  NoSession = NoSession
SPECIFICATION CommandLineSpec
INVARIANTS
  SessionVerified
  TokenNotLeft
  MessagesRendered
  ParsesAsSynopsis
  EchoRestored
CHECK_DEADLOCK FALSE
