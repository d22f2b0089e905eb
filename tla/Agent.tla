-------------------------------- MODULE Agent --------------------------------
(***************************************************************************)
(* One connection of the agent, from its request line to the end of its    *)
(* handler: handle, handlePort and handleShell of cmd/biot-agent, over the  *)
(* shell session and the port relay.  Connections share nothing.           *)
(***************************************************************************)
EXTENDS ShellSession, PortRelay, AgentRequest

CONSTANT Lines   \* the first lines a peer may send

ASSUME AgentConstants ==
         \A l \in Lines : \A name \in DOMAIN l.fields : IsValue(l.fields[name])

VARIABLES
  line,      \* the line of this connection
  handler,   \* "reading", "port", "shell", "accepting", or "closed" when Run and Relay are all
             \* that is left of it
  reply      \* what the peer was answered, or "none"

handlerVars == <<line, handler, reply>>
agentVars == <<shellVars, relayVars, handlerVars>>

AgentInit ==
  /\ ShellInit /\ RelayInit
  /\ line \in Lines /\ handler = "reading" /\ reply = "none"

\* writeReply reaches a peer that has not closed.
WriteReply(answer) == reply' = IF peerOpen THEN answer ELSE reply

\* handle: the request is read and either served or refused.  A line that cannot be read is closed
\* without an answer.
Handle ==
  LET request == Request(line) IN
  /\ handler = "reading"
  /\ \/ request \in {"port", "shell"} /\ handler' = request /\ UNCHANGED reply
     \/ request = "invalid" /\ handler' = "closed" /\ WriteReply("invalid_request")
     \/ request = "unread" /\ handler' = "closed" /\ UNCHANGED reply
  /\ UNCHANGED <<line, shellVars, relayVars>>

\* handlePort: the service takes the connection or not.
ConnectService ==
  /\ handler = "port"
  /\ \/ handler' = "accepting" /\ UNCHANGED reply
     \/ handler' = "closed" /\ WriteReply("connection_refused")
  /\ UNCHANGED <<line, shellVars, relayVars>>

\* handlePort: the relay starts once the peer has been told that it does.
AcceptPort ==
  /\ handler = "accepting"
  /\ WriteReply("ok") /\ handler' = "closed"
  /\ (peerOpen /\ Begin) \/ (~peerOpen /\ UNCHANGED relayVars)
  /\ UNCHANGED <<line, shellVars>>

\* handleShell.
Accept ==
  /\ handler = "shell"
  /\ AcceptShell /\ WriteReply("ok") /\ handler' = "closed"
  /\ UNCHANGED <<line, relayVars>>

\* The peer closes its connection, whatever it carries.
PeerGone ==
  /\ PeerCloses /\ EndCloses("peer")
  /\ UNCHANGED handlerVars

\* The peer may send what its request calls for before it is answered.
ShellStep ==
  /\ Request(line) = "shell"
  /\ Shell \/ PeerSends \/ PeerReads \/ Run \/ Wait \/ Input \/ Output
  /\ UNCHANGED <<relayVars, handlerVars>>

PortStep ==
  /\ Request(line) = "port"
  /\ \/ EndWrites("peer")
     \/ (handler = "accepting" \/ relay # "idle") /\ (EndWrites("service") \/ EndCloses("service"))
     \/ \E e \in Ends : EndReads(e) \/ Copy(e)
     \/ FirstDone \/ SecondDone
  /\ UNCHANGED <<shellVars, handlerVars>>

AgentNext ==
  \/ Handle \/ ConnectService \/ AcceptPort \/ Accept \/ PeerGone \/ ShellStep \/ PortStep

AgentSpec == AgentInit /\ [][AgentNext]_agentVars

\* Each connection's handler is a goroutine of its own.
AgentFairness ==
  /\ ShellFairness /\ RelayFairness
  /\ WF_agentVars(Handle \/ ConnectService \/ AcceptPort \/ Accept)

FairAgentSpec == AgentSpec /\ AgentFairness

-----------------------------------------------------------------------------
\* main.go:55-73, request.go:52-76: the handler serves exactly the request lines of the protocol,
\* refuses every other line with invalid_request, and answers nothing to a line it could not read.
AnsweredAsAsked ==
  LET valid == PortLine(line.fields) \/ ShellLine(line.fields) IN
  /\ reply \in {"ok", "connection_refused"} => line.read = "line" /\ valid
  /\ reply = "invalid_request" => line.read = "line" /\ ~valid
  /\ handler = "closed" /\ peerOpen /\ line.read = "line" => reply # "none"

\* A side has closed, or Run has begun to return.
Ending ==
  \/ ~peerOpen
  \/ relay = "first" /\ "service" \notin open
  \/ main \in {"grace", "killed", "return"}

\* A background command keeps the terminal open and readOutput in its read, also when Run has closed
\* the terminal.
ReadHeld == reader = "reading" /\ background = "there"

\* A write that nobody takes: of the peer's input to the terminal, or of the relay.
WriteHeld == (inputs = "writing" /\ HoldsTerminal) \/ \E e \in Ends : copier[e] = "writing"

\* Neither the handler nor a goroutine it started is left, but for a read that is held.
Unwound ==
  /\ handler = "closed" /\ main \in {"idle", "closed"} /\ relay \in {"idle", "over"}
  /\ waiter # "waiting" /\ (reader \in {"none", "closed"} \/ ReadHeld)
  /\ inputs \in {"none", "done", "refused"}
  /\ \A e \in Ends : copier[e] \in {"none", "done"}

\* session.go:36-60, relay.go:25-28, main.go:56: a connection whose peer or service closes, or whose
\* shell is over, leaves nothing behind: no goroutine stays blocked on a channel, the terminal or a
\* connection.  Two calls are the exception, as Close does not end them: readOutput may stay in
\* its read of a terminal that a background command holds, when all else has ended; and behind a
\* write that nobody ever takes the end of its connection is not noticed.
LeavesNothing == Ending ~> (Unwound \/ []WriteHeld)
=============================================================================
