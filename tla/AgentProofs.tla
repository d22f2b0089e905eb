----------------------------- MODULE AgentProofs -----------------------------
(***************************************************************************)
(* The agent, for every bound on output and input, every set of frames,    *)
(* requests and ways to exit.                                              *)
(*                                                                         *)
(* The shell session: its types, what is left of the shell, the status it  *)
(* sends, and the shell channel it implements.  The relay: what one end    *)
(* wrote before it closed reaches the other (RelayInv counts what is       *)
(* between them).  The handler: what it answers and starts is what the     *)
(* request, decoded, asks for.                                             *)
(***************************************************************************)
EXTENDS Agent, TLAPS

USE DEF shellVars, processes, terminal, channels, loop, sent, fromPeer

\* The process, the goroutine that waits for it and the status on its way to Run.
ProcessInv ==
  /\ waiter = "none" <=> shell = None
  /\ waiter = "sent" => shell # Running
  /\ main \in {"idle", "start"} => waiter = "none"
  /\ main \in {"select", "writing", "exit", "grace", "killed"} => waiter # "none"
  /\ main \in {"return", "closed"} => waiter # "waiting"
  /\ processDone # NoStatus => waiter = "sent" /\ processDone = ExitStatus(shell)
  /\ processNil => waiter = "sent" /\ status = ExitStatus(shell)
  /\ main = "exit" => processNil
  /\ exitFrame # NoStatus => waiter = "sent" /\ exitFrame = ExitStatus(shell)

\* The output on its way from the terminal to the peer.
OutputInv ==
  /\ taken <= written
  /\ main \in {"idle", "start"} =>
       /\ ~terminalOpen /\ reader = "none" /\ ~outputNil
       /\ taken = 0 /\ chunk = 0 /\ frame = 0 /\ shown = 0
  /\ main = "closed" => ~terminalOpen
  /\ main \in {"select", "writing", "exit"} =>
       terminalOpen /\ shown + frame + chunk = taken
  /\ main = "writing" <=> frame > 0
  /\ reader # "closed" => (reader = "sending" <=> chunk > 0)
  /\ reader = "closed" /\ terminalOpen => taken = written /\ ~HoldsTerminal /\ chunk = 0
  /\ outputNil => reader = "closed"
  /\ main = "exit" => outputNil
  /\ exitFrame # NoStatus =>
       main \in {"return", "closed"} /\ shown = written /\ ~HoldsTerminal

\* Why a session ends without an exit frame.
EndingInv ==
  /\ main \in {"idle", "start"} => inputs = "none" /\ shell = None
  /\ main \in {"select", "writing", "exit", "grace", "killed"} => terminalOpen
  /\ inputs # "none" /\ main # "closed" => terminalOpen
  /\ inputs = "done" => ~peerOpen \/ main = "closed"
  /\ inputDone => inputs \in {"done", "refused"}
  /\ main \in {"grace", "killed"} => ~peerOpen \/ inputs = "refused"
  /\ main \in {"return", "closed"} /\ shell # None /\ peerOpen =>
       exitFrame # NoStatus \/ inputs = "refused"

-----------------------------------------------------------------------------
\* exitStatus returns a byte.
LEMMA ExitStatusType ==
  ASSUME ShellTypeOK
  PROVE  ExitStatus(shell) \in Bytes
<1>1. CASE shell \in {None, Running}
  BY <1>1 DEF ExitStatus, Bytes, None, Running
<1>2. CASE shell \in [kind : {"exited", "signaled"}, value : 0..127]
  <2>1. \A n \in 0..127 : (128 + n) % 256 \in Bytes
    BY DEF Bytes
  <2> QED
    BY <1>2, <2>1 DEF ExitStatus, Bytes
<1> QED
  BY <1>1, <1>2 DEF ShellTypeOK

\* Every step keeps the types.
LEMMA TypeStep ==
  ASSUME ShellTypeOK, [ShellNext]_shellVars
  PROVE  ShellTypeOK'
<1> USE DEF ShellTypeOK, None, Running, SIGHUP, SIGKILL
<1>1. CASE TerminalWritten
  BY <1>1 DEF TerminalWritten
<1>2. CASE TerminalRead
  BY <1>2 DEF TerminalRead
<1>3. CASE Background
  BY <1>3 DEF Background
<1>4. CASE ShellExits
  BY <1>4, ShellConstants DEF ShellExits, Ended
<1>5. CASE ShellSignalled
  BY <1>5 DEF ShellSignalled, Ended
<1>6. CASE PeerSends
  BY <1>6, ShellConstants DEF PeerSends
<1>7. CASE PeerReads
  BY <1>7 DEF PeerReads
<1>8. CASE PeerCloses
  <2>1. peerOpen' \in BOOLEAN
    BY <1>8, Zenon DEF PeerCloses
  <2> QED
    BY <1>8, <2>1 DEF PeerCloses
<1>9. CASE AcceptShell
  BY <1>9 DEF AcceptShell
<1>10. CASE Start
  <2>1. terminalOpen' \in BOOLEAN
    BY <1>10, Zenon DEF Start
  <2> QED
    BY <1>10, <2>1 DEF Start
<1>11. CASE SelectInput
  <2>1. inputDone' \in BOOLEAN
    BY <1>11, Zenon DEF SelectInput, Abandon
  <2> QED
    BY <1>11, <2>1 DEF SelectInput, Abandon
<1>12. CASE SelectOutput
  BY <1>12 DEF SelectOutput
<1>13. CASE WriteOutput
  BY <1>13 DEF WriteOutput, Abandon
<1>14. CASE SelectOutputClosed
  BY <1>14 DEF SelectOutputClosed
<1>15. CASE SelectProcess
  BY <1>15 DEF SelectProcess
<1>16. CASE WriteExit
  <2>1. exitFrame' \in Bytes \cup {NoStatus} /\ unread' \in Nat
    BY <1>16 DEF WriteExit
  <2> QED
    BY <1>16, <2>1 DEF WriteExit
<1>17. CASE GraceEnds
  BY <1>17 DEF GraceEnds
<1>18. CASE Terminated
  BY <1>18 DEF Terminated
<1>19. CASE Unwind
  <2>1. terminalOpen' \in BOOLEAN
    BY <1>19, Zenon DEF Unwind
  <2> QED
    BY <1>19, <2>1 DEF Unwind
<1>20. CASE Wait
  BY <1>20, ExitStatusType DEF Wait
<1>21. CASE ReadInput
  <2>1. inputDone' \in BOOLEAN
    BY <1>21, Zenon DEF ReadInput, InputEnds
  <2>2. inbox' \in Seq(InputFrames)
    BY <1>21 DEF ReadInput, InputEnds
  <2>3. inputs' \in {"none", "reading", "writing", "done", "refused"}
    BY <1>21 DEF ReadInput, InputEnds
  <2> QED
    BY <1>21, <2>1, <2>2, <2>3 DEF ReadInput, InputEnds
<1>22. CASE WriteInput
  BY <1>22 DEF WriteInput
<1>23. CASE ReadOutput
  BY <1>23 DEF ReadOutput
<1>24. CASE ReadOutputEnds
  BY <1>24 DEF ReadOutputEnds, OutputOver
<1>25. CASE CallRead
  BY <1>25 DEF CallRead
<1>26. CASE UNCHANGED shellVars
  BY <1>26
<1> QED
  BY <1>1, <1>2, <1>3, <1>4, <1>5, <1>6, <1>7, <1>8, <1>9, <1>10, <1>11, <1>12, <1>13, <1>14,
  <1>15, <1>16, <1>17, <1>18, <1>19, <1>20, <1>21, <1>22, <1>23, <1>24, <1>25, <1>26 DEF ShellNext,
  Shell, Peer, Run, Input, Output

\* Every step keeps track of the process.
LEMMA ProcessStep ==
  ASSUME ShellTypeOK, ProcessInv, [ShellNext]_shellVars
  PROVE  ProcessInv'
<1> USE DEF ProcessInv, ShellTypeOK, Bytes, NoStatus, None, Running, ExitStatus
<1>1. CASE TerminalWritten
  BY <1>1 DEF TerminalWritten
<1>2. CASE TerminalRead
  BY <1>2 DEF TerminalRead
<1>3. CASE Background
  BY <1>3 DEF Background
<1>4. CASE ShellExits
  BY <1>4, ShellConstants DEF ShellExits, Ended
<1>5. CASE ShellSignalled
  BY <1>5 DEF ShellSignalled, Ended
<1>6. CASE PeerSends
  BY <1>6 DEF PeerSends
<1>7. CASE PeerReads
  BY <1>7 DEF PeerReads
<1>8. CASE PeerCloses
  BY <1>8 DEF PeerCloses
<1>9. CASE AcceptShell
  BY <1>9 DEF AcceptShell
<1>10. CASE Start
  BY <1>10 DEF Start
<1>11. CASE SelectInput
  BY <1>11 DEF SelectInput, Abandon
<1>12. CASE SelectOutput
  BY <1>12 DEF SelectOutput
<1>13. CASE WriteOutput
  BY <1>13 DEF WriteOutput, Abandon
<1>14. CASE SelectOutputClosed
  BY <1>14 DEF SelectOutputClosed
<1>15. CASE SelectProcess
  BY <1>15 DEF SelectProcess
<1>16. CASE WriteExit
  BY <1>16 DEF WriteExit
<1>17. CASE GraceEnds
  BY <1>17 DEF GraceEnds
<1>18. CASE Terminated
  BY <1>18 DEF Terminated
<1>19. CASE Unwind
  BY <1>19 DEF Unwind
<1>20. CASE Wait
  BY <1>20 DEF Wait
<1>21. CASE ReadInput
  BY <1>21 DEF ReadInput, InputEnds
<1>22. CASE WriteInput
  BY <1>22 DEF WriteInput
<1>23. CASE ReadOutput
  BY <1>23 DEF ReadOutput
<1>24. CASE ReadOutputEnds
  BY <1>24 DEF ReadOutputEnds, OutputOver
<1>25. CASE CallRead
  BY <1>25 DEF CallRead
<1>26. CASE UNCHANGED shellVars
  BY <1>26
<1> QED
  BY <1>1, <1>2, <1>3, <1>4, <1>5, <1>6, <1>7, <1>8, <1>9, <1>10, <1>11, <1>12, <1>13, <1>14,
  <1>15, <1>16, <1>17, <1>18, <1>19, <1>20, <1>21, <1>22, <1>23, <1>24, <1>25, <1>26 DEF ShellNext,
  Shell, Peer, Run, Input, Output

\* Every step keeps account of the output.
LEMMA OutputStep ==
  ASSUME ShellTypeOK, OutputInv, [ShellNext]_shellVars
  PROVE  OutputInv'
<1> USE DEF OutputInv, ShellTypeOK, HoldsTerminal, NoStatus, Running
<1>1. CASE TerminalWritten
  BY <1>1 DEF TerminalWritten
<1>2. CASE TerminalRead
  BY <1>2 DEF TerminalRead
<1>3. CASE Background
  BY <1>3 DEF Background
<1>4. CASE ShellExits
  BY <1>4, ShellConstants DEF ShellExits, Ended
<1>5. CASE ShellSignalled
  BY <1>5 DEF ShellSignalled, Ended
<1>6. CASE PeerSends
  BY <1>6 DEF PeerSends
<1>7. CASE PeerReads
  BY <1>7 DEF PeerReads
<1>8. CASE PeerCloses
  BY <1>8 DEF PeerCloses
<1>9. CASE AcceptShell
  BY <1>9 DEF AcceptShell
<1>10. CASE Start
  BY <1>10 DEF Start
<1>11. CASE SelectInput
  BY <1>11 DEF SelectInput, Abandon
<1>12. CASE SelectOutput
  BY <1>12 DEF SelectOutput
<1>13. CASE WriteOutput
  BY <1>13 DEF WriteOutput, Abandon
<1>14. CASE SelectOutputClosed
  BY <1>14 DEF SelectOutputClosed
<1>15. CASE SelectProcess
  BY <1>15 DEF SelectProcess
<1>16. CASE WriteExit
  BY <1>16 DEF WriteExit
<1>17. CASE GraceEnds
  BY <1>17 DEF GraceEnds
<1>18. CASE Terminated
  BY <1>18 DEF Terminated
<1>19. CASE Unwind
  BY <1>19 DEF Unwind
<1>20. CASE Wait
  BY <1>20 DEF Wait
<1>21. CASE ReadInput
  BY <1>21 DEF ReadInput, InputEnds
<1>22. CASE WriteInput
  BY <1>22 DEF WriteInput
<1>23. CASE ReadOutput
  BY <1>23 DEF ReadOutput
<1>24. CASE ReadOutputEnds
  BY <1>24 DEF ReadOutputEnds, OutputOver
<1>25. CASE CallRead
  BY <1>25 DEF CallRead
<1>26. CASE UNCHANGED shellVars
  BY <1>26
<1> QED
  BY <1>1, <1>2, <1>3, <1>4, <1>5, <1>6, <1>7, <1>8, <1>9, <1>10, <1>11, <1>12, <1>13, <1>14,
  <1>15, <1>16, <1>17, <1>18, <1>19, <1>20, <1>21, <1>22, <1>23, <1>24, <1>25, <1>26 DEF ShellNext,
  Shell, Peer, Run, Input, Output

\* Every step keeps the reasons for an ending.
LEMMA EndingStep ==
  ASSUME ShellTypeOK, EndingInv, [ShellNext]_shellVars
  PROVE  EndingInv'
<1> USE DEF EndingInv, ShellTypeOK, Bytes, NoStatus, None, Running
<1>1. CASE TerminalWritten
  BY <1>1 DEF TerminalWritten
<1>2. CASE TerminalRead
  BY <1>2 DEF TerminalRead
<1>3. CASE Background
  BY <1>3 DEF Background
<1>4. CASE ShellExits
  BY <1>4, ShellConstants DEF ShellExits, Ended
<1>5. CASE ShellSignalled
  BY <1>5 DEF ShellSignalled, Ended
<1>6. CASE PeerSends
  BY <1>6 DEF PeerSends
<1>7. CASE PeerReads
  BY <1>7 DEF PeerReads
<1>8. CASE PeerCloses
  BY <1>8 DEF PeerCloses
<1>9. CASE AcceptShell
  BY <1>9 DEF AcceptShell
<1>10. CASE Start
  BY <1>10 DEF Start
<1>11. CASE SelectInput
  BY <1>11 DEF SelectInput, Abandon
<1>12. CASE SelectOutput
  BY <1>12 DEF SelectOutput
<1>13. CASE WriteOutput
  BY <1>13 DEF WriteOutput, Abandon
<1>14. CASE SelectOutputClosed
  BY <1>14 DEF SelectOutputClosed
<1>15. CASE SelectProcess
  BY <1>15 DEF SelectProcess
<1>16. CASE WriteExit
  BY <1>16 DEF WriteExit
<1>17. CASE GraceEnds
  BY <1>17 DEF GraceEnds
<1>18. CASE Terminated
  BY <1>18 DEF Terminated
<1>19. CASE Unwind
  BY <1>19 DEF Unwind
<1>20. CASE Wait
  BY <1>20 DEF Wait
<1>21. CASE ReadInput
  BY <1>21 DEF ReadInput, InputEnds
<1>22. CASE WriteInput
  BY <1>22 DEF WriteInput
<1>23. CASE ReadOutput
  BY <1>23 DEF ReadOutput
<1>24. CASE ReadOutputEnds
  BY <1>24 DEF ReadOutputEnds, OutputOver
<1>25. CASE CallRead
  BY <1>25 DEF CallRead
<1>26. CASE UNCHANGED shellVars
  BY <1>26
<1> QED
  BY <1>1, <1>2, <1>3, <1>4, <1>5, <1>6, <1>7, <1>8, <1>9, <1>10, <1>11, <1>12, <1>13, <1>14,
  <1>15, <1>16, <1>17, <1>18, <1>19, <1>20, <1>21, <1>22, <1>23, <1>24, <1>25, <1>26 DEF ShellNext,
  Shell, Peer, Run, Input, Output

-----------------------------------------------------------------------------
\* What is invariant in a session.
SessionInv == ShellTypeOK /\ ProcessInv /\ OutputInv /\ EndingInv

\* A session begins with a shell that has not started and nothing to send.
LEMMA SessionStart ==
  ASSUME ShellInit
  PROVE  SessionInv
<1>1. ShellTypeOK
  <2>1. terminalOpen \in BOOLEAN /\ inputDone \in BOOLEAN /\ outputNil \in BOOLEAN
    BY Zenon DEF ShellInit
  <2>2. processNil \in BOOLEAN /\ peerOpen \in BOOLEAN /\ ignoresHup \in BOOLEAN
    BY Zenon DEF ShellInit
  <2> QED
    BY <2>1, <2>2 DEF ShellInit, ShellTypeOK, Bytes, NoStatus
<1>2. ProcessInv
  BY DEF ShellInit, ProcessInv, NoStatus, None, Running
<1>3. OutputInv
  BY DEF ShellInit, OutputInv, NoStatus, HoldsTerminal
<1>4. EndingInv
  BY DEF ShellInit, EndingInv
<1> QED
  BY <1>1, <1>2, <1>3, <1>4 DEF SessionInv

\* The invariant of a session holds in every session.
THEOREM SessionTheorem == ShellSpec => []SessionInv
<1>1. SessionInv /\ [ShellNext]_shellVars => SessionInv'
  BY TypeStep, ProcessStep, OutputStep, EndingStep DEF SessionInv
<1> QED
  BY <1>1, SessionStart, PTL DEF ShellSpec

\* ShellSession's variables keep their types, whatever the shell and the peer do.
THEOREM ShellTypeTheorem == ShellSpec => []ShellTypeOK
<1>1. SessionInv => ShellTypeOK
  BY DEF SessionInv
<1> QED
  BY <1>1, SessionTheorem, PTL

\* session.go:56-60, 69-74, 145-157: whoever closes first, a handler that has returned has ended its
\* shell and waited for it.
THEOREM NoShellLeftTheorem == ShellSpec => []NoShellLeft
<1>1. SessionInv => NoShellLeft
  BY DEF SessionInv, ShellTypeOK, ProcessInv, NoShellLeft, None, Running
<1> QED
  BY <1>1, SessionTheorem, PTL

\* session.go:75-79, 159-176: the status in the exit frame is the one the shell ended with.
THEOREM TrueStatusTheorem == ShellSpec => []TrueStatus
<1>1. SessionInv => TrueStatus
  BY DEF SessionInv, ProcessInv, TrueStatus
<1> QED
  BY <1>1, SessionTheorem, PTL

\* session.go:53-81, docs/model.md:1804-1805: a session that has started ends without an exit frame only
\* when its peer has gone or has sent a frame that is not valid.
THEOREM ExitFrameTheorem == ShellSpec => []ExitFrameSent
<1>1. SessionInv => ExitFrameSent
  BY DEF SessionInv, EndingInv, ExitFrameSent
<1> QED
  BY <1>1, SessionTheorem, PTL

-----------------------------------------------------------------------------
\* A step that writes no output and no frame, and does not return, is no step of the channel.
LEMMA ChannelStutter ==
  ASSUME UNCHANGED <<written, shown, exitFrame>>, main' = "closed" <=> main = "closed"
  PROVE  UNCHANGED Channel!channelVars
  BY DEF Channel!channelVars, Result

\* Every step of a session is a step of its channel, or none.
LEMMA ChannelStep ==
  ASSUME SessionInv, [ShellNext]_shellVars
  PROVE  [Channel!ChannelNext]_(Channel!channelVars)
<1> USE DEF SessionInv
<1>1. CASE TerminalWritten
  <2>1. exitFrame = NoStatus
    BY <1>1 DEF TerminalWritten, OutputInv
  <2>2. Result.kind # "exited" /\ Result' = Result
    BY <1>1, <2>1 DEF TerminalWritten, Result
  <2> QED
    BY <1>1, <2>2 DEF TerminalWritten, Channel!Write, Channel!ChannelNext
<1>2. CASE TerminalRead
  BY <1>2, ChannelStutter DEF TerminalRead
<1>3. CASE Background
  BY <1>3, ChannelStutter DEF Background
<1>4. CASE ShellExits
  BY <1>4, ChannelStutter DEF ShellExits, Ended
<1>5. CASE ShellSignalled
  BY <1>5, ChannelStutter DEF ShellSignalled, Ended
<1>6. CASE PeerSends
  BY <1>6, ChannelStutter DEF PeerSends
<1>7. CASE PeerReads
  BY <1>7, ChannelStutter DEF PeerReads
<1>8. CASE PeerCloses
  BY <1>8, ChannelStutter DEF PeerCloses
<1>9. CASE AcceptShell
  <2>1. exitFrame = NoStatus
    BY <1>9 DEF AcceptShell, OutputInv
  <2>2. CASE main' = "start"
    BY <1>9, <2>2, ChannelStutter DEF AcceptShell
  <2>3. CASE main' = "closed"
    BY <1>9, <2>1, <2>3
       DEF AcceptShell, Result, Channel!CutOff, Channel!Open, Channel!Cut, Channel!ChannelNext
  <2> QED
    BY <1>9, <2>2, <2>3 DEF AcceptShell
<1>10. CASE Start
  BY <1>10, ChannelStutter DEF Start
<1>11. CASE SelectInput
  BY <1>11, ChannelStutter DEF SelectInput, Abandon
<1>12. CASE SelectOutput
  BY <1>12, ChannelStutter DEF SelectOutput
<1>13. CASE WriteOutput
  <2>1. exitFrame = NoStatus
    BY <1>13 DEF WriteOutput, OutputInv
  <2>2. CASE shown' = shown
    BY <1>13, <2>2, ChannelStutter DEF WriteOutput, Abandon
  <2>3. CASE shown' = shown + frame /\ main' = "select"
    <3>1. shown' \in (shown + 1)..written
      BY <1>13, <2>3 DEF WriteOutput, OutputInv, ShellTypeOK
    <3>2. Result = Channel!Open /\ Result' = Result /\ written' = written
      BY <1>13, <2>1, <2>3 DEF WriteOutput, Result, Channel!Open
    <3> QED
      BY <3>1, <3>2 DEF Channel!Show, Channel!ChannelNext
  <2> QED
    BY <1>13, <2>2, <2>3 DEF WriteOutput
<1>14. CASE SelectOutputClosed
  BY <1>14, ChannelStutter DEF SelectOutputClosed
<1>15. CASE SelectProcess
  BY <1>15, ChannelStutter DEF SelectProcess
<1>16. CASE WriteExit
  <2>1. exitFrame = NoStatus
    BY <1>16 DEF WriteExit, OutputInv
  <2>2. CASE exitFrame' = exitFrame
    BY <1>16, <2>2, ChannelStutter DEF WriteExit
  <2>3. CASE exitFrame' = status
    <3>1. shown = written
      BY <1>16 DEF WriteExit, OutputInv, ShellTypeOK
    <3>2. status \in Bytes /\ status # NoStatus
      BY DEF ShellTypeOK, Bytes, NoStatus
    <3>3. Result = Channel!Open /\ Result' = Channel!Exited(status)
      BY <1>16, <2>1, <2>3, <3>2 DEF WriteExit, Result, Channel!Open, Channel!Exited
    <3> QED
      BY <1>16, <3>1, <3>2, <3>3 DEF WriteExit, Channel!Exit, Channel!ChannelNext
  <2> QED
    BY <1>16, <2>2, <2>3 DEF WriteExit
<1>17. CASE GraceEnds
  BY <1>17, ChannelStutter DEF GraceEnds
<1>18. CASE Terminated
  BY <1>18, ChannelStutter DEF Terminated
<1>19. CASE Unwind
  <2>1. CASE exitFrame = NoStatus
    BY <1>19, <2>1
       DEF Unwind, Result, Channel!CutOff, Channel!Open, Channel!Cut, Channel!ChannelNext
  <2>2. CASE exitFrame # NoStatus
    BY <1>19, <2>2 DEF Unwind, Result, Channel!channelVars
  <2> QED
    BY <2>1, <2>2
<1>20. CASE Wait
  BY <1>20, ChannelStutter DEF Wait
<1>21. CASE ReadInput
  BY <1>21, ChannelStutter DEF ReadInput, InputEnds
<1>22. CASE WriteInput
  BY <1>22, ChannelStutter DEF WriteInput
<1>23. CASE ReadOutput
  BY <1>23, ChannelStutter DEF ReadOutput
<1>24. CASE ReadOutputEnds
  BY <1>24, ChannelStutter DEF ReadOutputEnds, OutputOver
<1>25. CASE CallRead
  BY <1>25, ChannelStutter DEF CallRead
<1>26. CASE UNCHANGED shellVars
  BY <1>26, ChannelStutter
<1> QED
  BY <1>1, <1>2, <1>3, <1>4, <1>5, <1>6, <1>7, <1>8, <1>9, <1>10, <1>11, <1>12, <1>13, <1>14,
  <1>15, <1>16, <1>17, <1>18, <1>19, <1>20, <1>21, <1>22, <1>23, <1>24, <1>25, <1>26 DEF ShellNext,
  Shell, Peer, Run, Input, Output

\* session.go:51-81: the session implements the shell channel, whatever is written, typed and closed
\* in whatever order.
THEOREM ChannelTheorem == ShellSpec => ImplementsChannel
<1>1. ShellInit => Channel!ChannelInit
  BY DEF ShellInit, Channel!ChannelInit, Channel!Open, Result
<1>2. SessionInv /\ [ShellNext]_shellVars => [Channel!ChannelNext]_(Channel!channelVars)
  BY ChannelStep
<1> QED
  BY <1>1, <1>2, SessionTheorem, PTL DEF ShellSpec, ImplementsChannel, Channel!ChannelSpec

-----------------------------------------------------------------------------
\* A connection of the agent moves its session only by the steps of a session.
LEMMA AgentMovesShell == [AgentNext]_agentVars => [ShellNext]_shellVars
<1>1. ASSUME AgentNext PROVE ShellNext \/ UNCHANGED shellVars
  BY <1>1 DEF AgentNext, Handle, ConnectService, AcceptPort, Accept, PeerGone, ShellStep, PortStep,
          ShellNext, Peer
<1> QED
  BY <1>1 DEF agentVars

\* Agent: a connection of the agent runs one session.
THEOREM AgentRunsSession == AgentSpec => ShellSpec
<1>1. AgentInit => ShellInit
  BY DEF AgentInit
<1> QED
  BY <1>1, AgentMovesShell, PTL DEF AgentSpec, ShellSpec

\* main.go:88-95: what holds of every session holds of every connection of the agent.
THEOREM AgentSessionTheorem ==
  AgentSpec => [](NoShellLeft /\ TrueStatus /\ ExitFrameSent) /\ ImplementsChannel
  BY AgentRunsSession, NoShellLeftTheorem, TrueStatusTheorem, ExitFrameTheorem, ChannelTheorem, PTL

-----------------------------------------------------------------------------
(* The port relay.                                                         *)

\* A copy that ends before Relay closes anything has delivered all of its source, which has closed,
\* or has found the other end closed with something left to write.
EndedByItself(e) ==
  /\ copier[e] = "done"
  /\ \/ e \notin open /\ copied[e] = offered[e]
     \/ Other(e) \notin open /\ copied[e] < offered[e]

\* Relay closes the connections only for a copy that has ended by itself.
RelayInv ==
  /\ offered \in [Ends -> Nat] /\ read \in [Ends -> Nat] /\ copied \in [Ends -> Nat]
  /\ copier \in [Ends -> {"none", "reading", "writing", "done"}]
  /\ relay \in {"idle", "first", "second", "over"} /\ finished \in Nat
  /\ \A e \in Ends :
       /\ read[e] <= offered[e]
       /\ copier[e] \in {"none", "reading"} => copied[e] = read[e]
       /\ copier[e] = "writing" => copied[e] < read[e]
       /\ Connected /\ copier[e] = "done" => EndedByItself(e)
  /\ relay = "idle" => copier = [e \in Ends |-> "none"]
  /\ finished > 0 => \E e \in Ends : copier[e] = "done"
  /\ ~Connected => \E e \in Ends : EndedByItself(e)

\* relay.go: a relay begins with two open ends and nothing copied.
LEMMA RelayStart == RelayInit => RelayInv
BY DEF RelayInit, RelayInv, Connected, Ends

RelayNext ==
  \/ Begin \/ FirstDone \/ SecondDone
  \/ \E e \in Ends : EndWrites(e) \/ EndReads(e) \/ EndCloses(e) \/ Copy(e)

\* Every step of the ends and of Relay keeps account of what was copied.
LEMMA RelayStep ==
  ASSUME RelayInv, [RelayNext]_relayVars
  PROVE  RelayInv'
<1> USE DEF RelayInv, Connected, EndedByItself, Ends, Other
<1>1. CASE Begin
  BY <1>1 DEF Begin
<1>2. CASE FirstDone
  BY <1>2 DEF FirstDone
<1>3. CASE SecondDone
  BY <1>3 DEF SecondDone
<1>4. ASSUME NEW e \in Ends, EndWrites(e) PROVE RelayInv'
  BY <1>4 DEF EndWrites
<1>5. ASSUME NEW e \in Ends, EndReads(e) PROVE RelayInv'
  BY <1>5 DEF EndReads
<1>6. ASSUME NEW e \in Ends, EndCloses(e) PROVE RelayInv'
  BY <1>6 DEF EndCloses
<1>7. ASSUME NEW e \in Ends, CopyRead(e) PROVE RelayInv'
  BY <1>7 DEF CopyRead
<1>8. ASSUME NEW e \in Ends, CopyReadEnds(e) PROVE RelayInv'
  BY <1>8 DEF CopyReadEnds, SourceOver, Finish
<1>9. ASSUME NEW e \in Ends, CopyWrite(e) PROVE RelayInv'
  <2>1. CASE Connected /\ Other(e) \in open /\ copied' = [copied EXCEPT ![e] = read[e]]
    BY <1>9, <2>1 DEF CopyWrite
  <2>2. CASE (~Connected \/ Other(e) \notin open) /\ Finish(e) /\ UNCHANGED copied
    BY <1>9, <2>2 DEF CopyWrite, Finish
  <2> QED
    BY <1>9, <2>1, <2>2 DEF CopyWrite
<1>10. CASE UNCHANGED relayVars
  BY <1>10 DEF relayVars
<1> QED
  BY <1>1, <1>2, <1>3, <1>4, <1>5, <1>6, <1>7, <1>8, <1>9, <1>10 DEF RelayNext, Copy

\* A connection of the agent moves its relay only by the steps of a relay.
LEMMA AgentMovesRelay == [AgentNext]_agentVars => [RelayNext]_relayVars
<1>1. ASSUME PeerGone PROVE RelayNext
  BY <1>1 DEF PeerGone, RelayNext, Ends
<1>2. ASSUME PortStep PROVE RelayNext
  BY <1>2 DEF PortStep, RelayNext, Ends
<1>3. ASSUME Handle \/ ConnectService \/ AcceptPort \/ Accept \/ ShellStep
      PROVE  Begin \/ UNCHANGED relayVars
  BY <1>3 DEF Handle, ConnectService, AcceptPort, Accept, ShellStep
<1> QED
  BY <1>1, <1>2, <1>3 DEF AgentNext, agentVars, RelayNext

\* relay.go:20-28: whatever the ends write, read and close in whatever order, an end that stays gets
\* all the other wrote before it closed, unless a write of its own was in the way.
THEOREM TailTheorem == AgentSpec => []TailDelivered
<1>1. AgentInit => RelayInv
  BY RelayStart DEF AgentInit
<1>2. RelayInv /\ [AgentNext]_agentVars => RelayInv'
  BY RelayStep, AgentMovesRelay
<1>3. RelayInv => TailDelivered
  BY DEF RelayInv, Connected, EndedByItself, TailDelivered, Ends, Other
<1> QED
  BY <1>1, <1>2, <1>3, PTL DEF AgentSpec

-----------------------------------------------------------------------------
(* The request line and its answer.                                        *)

\* null counts as 0 and as "", so what must be more is there.
LEMMA Members ==
  /\ Null.text = "" /\ Null.number = 0 /\ Null.json = "null"
  /\ \A x : /\ Number(x).json = "number" /\ List(x).json = "list"
            /\ String(x).json = "string" /\ String(x).text = x
BY DEF Null, Value, Number, String, List

\* A string is nothing but its text.
LEMMA StringsAre == ASSUME NEW v, IsValue(v), v.json = "string" PROVE v = String(v.text)
BY Members DEF IsValue

\* A uint16 that is not null's 0 is a number, and 0 is refused either way.
LEMMA Numbers == ASSUME NEW v PROVE IsUint16(v) /\ v.number # 0 <=> Positive(v)
<1>0. MaxUint16 \in Nat
  BY DEF MaxUint16
<1>1. \A n \in 0..MaxUint16 : n # 0 => n \in 1..MaxUint16
  BY <1>0
<1>2. \A n \in 1..MaxUint16 : n \in 0..MaxUint16 /\ n # 0
  BY <1>0
<1>3. ASSUME IsUint16(v), v.number # 0 PROVE Positive(v)
  BY <1>1, <1>3, Members, Zenon DEF IsUint16, Positive
<1>4. ASSUME Positive(v) PROVE IsUint16(v) /\ v.number # 0
  BY <1>2, <1>4, Zenon DEF IsUint16, Positive
<1> QED
  BY <1>3, <1>4

\* A text without a NUL is a word or null.
LEMMA Texts == ASSUME NEW v PROVE IsText(v) /\ v.text # WithNul <=> Word(v) \/ v = Null
<1>1. WithNul # ""
  BY DEF WithNul
<1> QED
  BY <1>1, Members DEF IsText, Word

\* null is no text of its own.
LEMMA Strings ==
  ASSUME NEW v, IsValue(v), NEW s, s # ""
  PROVE  IsText(v) /\ v.text = s <=> v = String(s)
BY StringsAre, Members DEF IsText

\* ReadRequest's target is the member target when that is a string.
LEMMA Targets ==
  ASSUME NEW fields, \A name \in DOMAIN fields : IsValue(fields[name]), NEW s, s # ""
  PROVE  Target(fields) = s <=> "target" \in DOMAIN fields /\ fields.target = String(s)
BY Strings DEF Target

\* ParsePort accepts the port lines of the protocol and no others.
LEMMA PortLines ==
  ASSUME NEW fields, \A name \in DOMAIN fields : IsValue(fields[name])
  PROVE  Target(fields) = "port" /\ ParsePort(fields) <=> PortLine(fields)
BY Numbers, Targets DEF ParsePort, HasExactFields, PortLine

\* A command is null or a list of words, one of which may be null.
LEMMA Commands == ASSUME NEW v PROVE ParseCommand(v) <=> v = Null \/ Words(v)
BY Texts DEF ParseCommand, Words

\* The terminal's name is a word that is not empty.
LEMMA Terms ==
  ASSUME NEW v, IsValue(v)
  PROVE  IsText(v) /\ v.text \notin {"", WithNul} <=> Word(v) /\ v # String("")
BY StringsAre, Members DEF IsText, Word

\* ParseShell accepts the shell lines of the protocol and no others.
LEMMA ShellLines ==
  ASSUME NEW fields, \A name \in DOMAIN fields : IsValue(fields[name])
  PROVE  Target(fields) = "shell" /\ ParseShell(fields) <=> ShellLine(fields)
BY Numbers, Terms, Targets, Commands DEF ParseShell, HasExactFields, ShellLine

\* The handler knows what it was asked, and what it answers follows from it.
HandlerInv ==
  /\ line \in Lines
  /\ handler \in {"port", "accepting"} => Request(line) = "port"
  /\ handler = "shell" => Request(line) = "shell"
  /\ handler \in {"reading", "port", "shell", "accepting", "closed"}
  /\ reply \in {"ok", "connection_refused"} => Request(line) \in {"port", "shell"}
  /\ reply = "invalid_request" => Request(line) = "invalid"
  /\ handler = "closed" /\ peerOpen /\ Request(line) # "unread" => reply # "none"

\* A peer that has closed does not come back.
LEMMA PeerStaysClosed == [ShellNext]_shellVars => (peerOpen' => peerOpen)
BY DEF ShellNext, Shell, Peer, Run, Input, Output, TerminalWritten, TerminalRead, Background,
       ShellExits, ShellSignalled, Ended, PeerSends, PeerReads, PeerCloses, AcceptShell, Start,
       SelectInput, SelectOutput, WriteOutput, SelectOutputClosed, SelectProcess, WriteExit,
       GraceEnds, Terminated, Unwind, Wait, ReadInput, WriteInput, CallRead, ReadOutput, ReadOutputEnds

\* Every step of the handler answers what was asked.
LEMMA HandlerStep ==
  ASSUME HandlerInv, [AgentNext]_agentVars
  PROVE  HandlerInv'
<1>1. peerOpen' => peerOpen
  BY AgentMovesShell, PeerStaysClosed
<1> USE <1>1 DEF HandlerInv, handlerVars, WriteReply
<1>2. CASE Handle
  BY <1>2 DEF Handle
<1>3. CASE ConnectService
  BY <1>3 DEF ConnectService
<1>4. CASE AcceptPort
  BY <1>4 DEF AcceptPort
<1>5. CASE Accept
  BY <1>5 DEF Accept
<1>6. CASE PeerGone \/ ShellStep \/ PortStep \/ UNCHANGED agentVars
  BY <1>6 DEF PeerGone, ShellStep, PortStep, agentVars
<1> QED
  BY <1>2, <1>3, <1>4, <1>5, <1>6 DEF AgentNext

\* What the handler knows is what the protocol asks for.
LEMMA AnswersFollow == HandlerInv => AnsweredAsAsked
<1> SUFFICES ASSUME HandlerInv PROVE AnsweredAsAsked
  OBVIOUS
<1>1. \A name \in DOMAIN line.fields : IsValue(line.fields[name])
  BY AgentConstants DEF HandlerInv
<1>2. Request(line) \in {"port", "shell"} <=>
        line.read = "line" /\ (PortLine(line.fields) \/ ShellLine(line.fields))
  BY <1>1, PortLines, ShellLines DEF Request
<1>3. Request(line) = "invalid" <=> line.read = "line" /\ Request(line) \notin {"port", "shell"}
  BY DEF Request
<1> QED
  BY <1>2, <1>3 DEF HandlerInv, AnsweredAsAsked, Request

\* main.go:55-73, request.go:52-76: for every line a peer may send, the handler serves it only when
\* it is a request of the protocol, refuses it only when it is not, and leaves no line unanswered
\* that it could read.
THEOREM AnsweredTheorem == AgentSpec => []AnsweredAsAsked
<1>1. AgentInit => HandlerInv
  BY DEF AgentInit, HandlerInv
<1>2. HandlerInv /\ [AgentNext]_agentVars => HandlerInv'
  BY HandlerStep
<1> QED
  BY <1>1, <1>2, AnswersFollow, PTL DEF AgentSpec
=============================================================================
