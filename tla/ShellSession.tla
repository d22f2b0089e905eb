---------------------------- MODULE ShellSession ----------------------------
(***************************************************************************)
(* One shell session of the agent: shellsession.Run, its three goroutines   *)
(* and terminate, between a peer's socket and a pseudo-terminal.  A step is *)
(* one communication: a channel operation, a read or a write of the socket  *)
(* or the terminal, a signal.                                              *)
(*                                                                         *)
(* Output is counted, since a terminal and a socket keep its order.  The    *)
(* peer, the terminal, the shell and what it leaves in the background are   *)
(* the environment.                                                        *)
(***************************************************************************)
EXTENDS Naturals, Sequences

CONSTANTS
  InputFrames,   \* frames the peer may send: [type, size, zero]
  Exits,         \* ways in which a shell ends by itself
  MaxOutput,     \* bound: units of output written to the terminal
  MaxInput,      \* bound: frames the peer sends
  Window,        \* frames the socket holds before a write blocks
  TypeAhead      \* input frames the terminal holds before a write blocks

FramePayloadLimit == 65536
FrameData == 0
FrameResize == 1
SIGHUP == 1
SIGKILL == 9

ASSUME ShellConstants ==
         /\ InputFrames \subseteq [type : 0..255, size : Nat, zero : BOOLEAN]
         /\ Exits \subseteq [kind : {"exited", "signaled"}, value : 0..127]
         /\ MaxOutput \in Nat /\ MaxInput \in Nat
         /\ Window \in Nat \ {0} /\ TypeAhead \in Nat \ {0}

VARIABLES
  shell,         \* [kind, value]: "none", "running", or how it ended
  ignoresHup,    \* whether the shell survives SIGHUP
  background,    \* a process of another group on the terminal: "none", "there" or "gone"
  signal,        \* the signal on its way to the shell's process group, or 0
  written,       \* output written to the terminal
  taken,         \* output read from the terminal
  typed,         \* input frames the terminal holds
  terminalOpen,  \* Run has not closed the terminal
  waiter,        \* the goroutine in command.Wait
  reader,        \* readOutput: "ready" before a read of the terminal, "reading" in it
  inputs,        \* readInput
  processDone,   \* the status in the channel, or NoStatus
  inputDone,     \* a value is in the channel
  chunk,         \* output that readOutput offers on its channel
  main,          \* where Run is
  outputNil,     \* Run no longer selects on output
  processNil,    \* Run no longer selects on processDone
  frame,         \* output in the data frame that Run writes
  status,        \* the status Run received
  shown,         \* output sent in data frames
  exitFrame,     \* the status sent in the exit frame, or NoStatus
  peerOpen,      \* the peer has not closed its end
  inbox,         \* frames the peer sent and readInput has not read
  asked,         \* frames the peer has sent in all
  unread         \* frames the peer has not read

processes == <<shell, ignoresHup, background, signal>>
terminal  == <<written, taken, typed, terminalOpen>>
channels  == <<processDone, inputDone, chunk>>
loop      == <<main, outputNil, processNil, frame, status>>
sent      == <<shown, exitFrame, unread>>
fromPeer  == <<peerOpen, inbox, asked>>
shellVars == <<processes, terminal, channels, loop, sent, fromPeer, waiter, reader, inputs>>

None == [kind |-> "none", value |-> 0]
Running == [kind |-> "running", value |-> 0]
NoStatus == 256      \* statuses are bytes

HoldsTerminal == shell = Running \/ background = "there"
Writable == unread < Window

\* The descriptor of the terminal is in blocking mode, because pty asks for it (f.Fd in ioctl), so
\* Close ends no call that is in read(2) or write(2), and frees the descriptor after the last of them.
DescriptorHeld == terminalOpen \/ reader = "reading" \/ inputs = "writing"

ShellInit ==
  /\ shell = None /\ ignoresHup \in BOOLEAN /\ background = "none" /\ signal = 0
  /\ written = 0 /\ taken = 0 /\ typed = 0 /\ terminalOpen = FALSE
  /\ processDone = NoStatus /\ inputDone = FALSE /\ chunk = 0
  /\ main = "idle" /\ outputNil = FALSE /\ processNil = FALSE /\ frame = 0 /\ status = 0
  /\ shown = 0 /\ exitFrame = NoStatus /\ unread = 0
  /\ peerOpen = TRUE /\ inbox = <<>> /\ asked = 0
  /\ waiter = "none" /\ reader = "none" /\ inputs = "none"

-----------------------------------------------------------------------------
(* The environment.                                                        *)

TerminalWritten ==
  /\ HoldsTerminal /\ DescriptorHeld
  /\ written < MaxOutput /\ written' = written + 1
  /\ UNCHANGED <<processes, taken, typed, terminalOpen, channels, loop, sent, fromPeer,
                 waiter, reader, inputs>>

TerminalRead ==
  /\ HoldsTerminal
  /\ typed > 0 /\ typed' = typed - 1
  /\ UNCHANGED <<processes, written, taken, terminalOpen, channels, loop, sent, fromPeer,
                 waiter, reader, inputs>>

\* The shell leaves a command in the background, in a group of its own; that command ends.
Background ==
  /\ \/ shell = Running /\ background = "none" /\ background' = "there"
     \/ background = "there" /\ background' = "gone"
  /\ UNCHANGED <<shell, ignoresHup, signal, terminal, channels, loop, sent, fromPeer,
                 waiter, reader, inputs>>

Ended(how) ==
  /\ shell = Running
  /\ shell' = how
  /\ UNCHANGED <<ignoresHup, background, signal, terminal, channels, loop, sent, fromPeer,
                 waiter, reader, inputs>>

ShellExits == \E how \in Exits : Ended(how)

\* The kernel delivers the signal that terminate sent.
ShellSignalled ==
  /\ signal = SIGKILL \/ (signal = SIGHUP /\ ~ignoresHup)
  /\ Ended([kind |-> "signaled", value |-> signal])

PeerSends ==
  /\ main # "closed"
  /\ peerOpen /\ asked < MaxInput
  /\ \E f \in InputFrames : inbox' = Append(inbox, f)
  /\ asked' = asked + 1
  /\ UNCHANGED <<processes, terminal, channels, loop, sent, peerOpen, waiter, reader, inputs>>

PeerReads ==
  /\ peerOpen
  /\ unread > 0 /\ unread' = unread - 1
  /\ UNCHANGED <<processes, terminal, channels, loop, shown, exitFrame, fromPeer,
                 waiter, reader, inputs>>

PeerCloses ==
  /\ peerOpen /\ peerOpen' = FALSE
  /\ UNCHANGED <<processes, terminal, channels, loop, sent, inbox, asked, waiter, reader, inputs>>

-----------------------------------------------------------------------------
(* The goroutines.                                                         *)

\* exitStatus: a signal is counted from 128.
ExitStatus(how) == IF how.kind = "signaled" THEN (128 + how.value) % 256 ELSE how.value

\* The goroutine that waits for the process; its channel has room for the one value.
Wait ==
  /\ waiter = "waiting" /\ shell # Running
  /\ waiter' = "sent"
  /\ processDone' = ExitStatus(shell)
  /\ UNCHANGED <<processes, terminal, inputDone, chunk, loop, sent, fromPeer, reader, inputs>>

\* ReadFrame and the switch of readInput: what a frame asks for.
FrameAsks(f) ==
  CASE f.size > FramePayloadLimit -> "invalid"
    [] f.size <= FramePayloadLimit /\ f.type = FrameData -> "write"
    [] f.size = 4 /\ f.type = FrameResize /\ ~f.zero -> "resize"
    [] OTHER -> "invalid"

InputEnds(how) == inputs' = how /\ inputDone' = TRUE

\* readInput takes a frame and resizes the terminal at once, or begins to write to it.  It returns
\* over a frame that is not valid, at the end of the peer's frames, and when handle has closed the
\* socket.  A frame that is read just before and meets a closed terminal ends it the same way.
ReadInput ==
  /\ inputs = "reading"
  /\ \/ /\ main # "closed" /\ inbox # <<>>
        /\ inbox' = Tail(inbox)
        /\ LET asks == FrameAsks(Head(inbox))
           IN  \/ asks = "write" /\ inputs' = "writing" /\ UNCHANGED inputDone
               \/ asks = "resize" /\ UNCHANGED <<inputs, inputDone>>
               \/ asks = "invalid" /\ InputEnds("refused")
     \/ /\ main = "closed" \/ (inbox = <<>> /\ ~peerOpen)
        /\ InputEnds("done") /\ UNCHANGED inbox
  /\ UNCHANGED <<processes, terminal, processDone, chunk, loop, sent, peerOpen, asked,
                 waiter, reader>>

\* A terminal.Write that has begun blocks while the terminal is full, also when Run closes it.  A
\* terminal that no process has open any more takes everything.
WriteInput ==
  /\ inputs = "writing" /\ inputs' = "reading"
  /\ \/ HoldsTerminal /\ typed < TypeAhead /\ typed' = typed + 1
     \/ ~HoldsTerminal /\ UNCHANGED typed
  /\ UNCHANGED <<processes, written, taken, terminalOpen, channels, loop, sent, fromPeer,
                 waiter, reader>>

\* readOutput calls terminal.Read, which fails at once when Run has closed the terminal.
CallRead ==
  /\ reader = "ready" /\ terminalOpen
  /\ reader' = "reading"
  /\ UNCHANGED <<processes, terminal, channels, loop, sent, fromPeer, waiter, inputs>>

\* terminal.Read waits for output and takes some of what there is; readOutput has to hand it over
\* before it reads again.
ReadOutput ==
  /\ reader = "reading"
  /\ \E n \in 1..(written - taken) : taken' = taken + n /\ chunk' = n
  /\ reader' = "sending"
  /\ UNCHANGED <<processes, written, typed, terminalOpen, processDone, inputDone, loop, sent,
                 fromPeer, waiter, inputs>>

\* Mutant of OutputOver: the end of the shell is taken for the end of its output.
OutputOverWithShell == shell # Running

\* A terminal.Read that has begun fails only when the terminal is drained and nobody has it open.
OutputOver == taken = written /\ ~HoldsTerminal

\* readOutput returns and closes its channel.  A chunk nobody takes is dropped when Run is over.
ReadOutputEnds ==
  /\ \/ reader = "ready" /\ ~terminalOpen
     \/ reader = "reading" /\ OutputOver
     \/ reader = "sending" /\ main = "closed"
  /\ reader' = "closed"
  /\ UNCHANGED <<processes, terminal, channels, loop, sent, fromPeer, waiter, inputs>>

-----------------------------------------------------------------------------
(* Run.  "idle" is before handleShell has accepted, "select" is Run's       *)
(* loop, "writing" and "exit" are the frames it writes, "grace" and        *)
(* "killed" the two waits of terminate, "return" the deferred calls of Run *)
(* and handle, and "closed" what they leave.                               *)

\* handleShell: the session starts once the peer has been told that it does.
AcceptShell ==
  /\ main = "idle"
  /\ main' = IF peerOpen THEN "start" ELSE "closed"
  /\ UNCHANGED <<processes, terminal, channels, outputNil, processNil, frame, status, sent, fromPeer,
                 waiter, reader, inputs>>

\* pty.StartWithSize and the goroutines, or its failure.
Start ==
  /\ main = "start"
  /\ \/ /\ main' = "select" /\ shell' = Running /\ terminalOpen' = TRUE
        /\ waiter' = "waiting" /\ reader' = "ready" /\ inputs' = "reading"
     \/ main' = "return" /\ UNCHANGED <<shell, terminalOpen, waiter, reader, inputs>>
  /\ UNCHANGED <<ignoresHup, background, signal, written, taken, typed, channels, outputNil,
                 processNil, frame, status, sent, fromPeer>>

\* Mutant of Abandon: Run returns without ending the process.
AbandonProcess == main' = "return" /\ UNCHANGED signal

\* Run gives up on its peer: it terminates the process unless it has received its status.
Abandon ==
  \/ processNil /\ main' = "return" /\ UNCHANGED signal
  \/ ~processNil /\ main' = "grace" /\ signal' = SIGHUP

SelectInput ==
  /\ main = "select" /\ inputDone
  /\ inputDone' = FALSE
  /\ Abandon
  /\ UNCHANGED <<shell, ignoresHup, background, terminal, processDone, chunk, outputNil, processNil,
                 frame, status, sent, fromPeer, waiter, reader, inputs>>

SelectOutput ==
  /\ main = "select" /\ ~outputNil /\ reader = "sending"
  /\ main' = "writing" /\ frame' = chunk
  /\ reader' = "ready" /\ chunk' = 0
  /\ UNCHANGED <<processes, terminal, processDone, inputDone, outputNil, processNil, status, sent,
                 fromPeer, waiter, inputs>>

\* WriteFrame blocks while the socket is full and fails once the peer has closed.
WriteOutput ==
  /\ main = "writing"
  /\ \/ /\ peerOpen /\ Writable
        /\ shown' = shown + frame /\ unread' = unread + 1
        /\ main' = "select" /\ UNCHANGED signal
     \/ ~peerOpen /\ Abandon /\ UNCHANGED <<shown, unread>>
  /\ frame' = 0
  /\ UNCHANGED <<shell, ignoresHup, background, terminal, channels, outputNil, processNil, status,
                 exitFrame, fromPeer, waiter, reader, inputs>>

\* The channel is closed.  The session ends with the later of the output and the process.
SelectOutputClosed ==
  /\ main = "select" /\ ~outputNil /\ reader = "closed"
  /\ outputNil' = TRUE
  /\ main' = IF processNil THEN "exit" ELSE "select"
  /\ UNCHANGED <<processes, terminal, channels, processNil, frame, status, sent, fromPeer,
                 waiter, reader, inputs>>

\* Mutant of SelectProcess: the status of a process that ends last is not sent.
SelectProcessReturns ==
  /\ main = "select" /\ ~processNil /\ processDone # NoStatus
  /\ processNil' = TRUE /\ status' = processDone /\ processDone' = NoStatus
  /\ main' = IF outputNil THEN "return" ELSE "select"
  /\ UNCHANGED <<processes, terminal, inputDone, chunk, outputNil, frame, sent, fromPeer,
                 waiter, reader, inputs>>

SelectProcess ==
  /\ main = "select" /\ ~processNil /\ processDone # NoStatus
  /\ processNil' = TRUE /\ status' = processDone /\ processDone' = NoStatus
  /\ main' = IF outputNil THEN "exit" ELSE "select"
  /\ UNCHANGED <<processes, terminal, inputDone, chunk, outputNil, frame, sent, fromPeer,
                 waiter, reader, inputs>>

WriteExit ==
  /\ main = "exit"
  /\ \/ peerOpen /\ Writable /\ exitFrame' = status /\ unread' = unread + 1
     \/ ~peerOpen /\ UNCHANGED <<exitFrame, unread>>
  /\ main' = "return"
  /\ UNCHANGED <<processes, terminal, channels, outputNil, processNil, frame, status, shown,
                 fromPeer, waiter, reader, inputs>>

\* terminate waits for the process, at first for DisconnectGrace only.
GraceEnds ==
  /\ main = "grace"
  /\ main' = "killed" /\ signal' = SIGKILL
  /\ UNCHANGED <<shell, ignoresHup, background, terminal, channels, outputNil, processNil, frame,
                 status, sent, fromPeer, waiter, reader, inputs>>

Terminated ==
  /\ main \in {"grace", "killed"} /\ processDone # NoStatus
  /\ main' = "return" /\ processDone' = NoStatus
  /\ UNCHANGED <<processes, terminal, inputDone, chunk, outputNil, processNil, frame, status, sent,
                 fromPeer, waiter, reader, inputs>>

\* The deferred calls: sessionDone and the terminal are closed, then the socket.
Unwind ==
  /\ main = "return" /\ main' = "closed"
  /\ terminalOpen' = FALSE
  /\ UNCHANGED <<processes, written, taken, typed, channels, outputNil, processNil, frame, status,
                 sent, fromPeer, waiter, reader, inputs>>

Shell == TerminalWritten \/ TerminalRead \/ Background \/ ShellExits \/ ShellSignalled
Peer == PeerSends \/ PeerReads \/ PeerCloses
Run ==
  \/ Start \/ SelectInput \/ SelectOutput \/ WriteOutput \/ SelectOutputClosed \/ SelectProcess
  \/ WriteExit \/ GraceEnds \/ Terminated \/ Unwind
Input == ReadInput \/ WriteInput
Output == CallRead \/ ReadOutput \/ ReadOutputEnds

ShellNext == Shell \/ Peer \/ AcceptShell \/ Run \/ Wait \/ Input \/ Output

ShellSpec == ShellInit /\ [][ShellNext]_shellVars

\* Go runs every goroutine that can run, timers fire and the kernel delivers signals.  Shell and
\* peer owe nothing.
ShellFairness ==
  /\ WF_shellVars(Run) /\ WF_shellVars(Wait) /\ WF_shellVars(Input) /\ WF_shellVars(Output)
  /\ WF_shellVars(ShellSignalled)

-----------------------------------------------------------------------------
Bytes == 0..255

\* Every variable keeps its type.
ShellTypeOK ==
  /\ shell \in {None, Running} \cup [kind : {"exited", "signaled"}, value : 0..127]
  /\ ignoresHup \in BOOLEAN /\ background \in {"none", "there", "gone"} /\ signal \in {0, SIGHUP, SIGKILL}
  /\ written \in Nat /\ taken \in Nat /\ typed \in Nat /\ terminalOpen \in BOOLEAN
  /\ processDone \in Bytes \cup {NoStatus} /\ inputDone \in BOOLEAN /\ chunk \in Nat
  /\ main \in {"idle", "start", "select", "writing", "exit", "grace", "killed", "return", "closed"}
  /\ outputNil \in BOOLEAN /\ processNil \in BOOLEAN /\ frame \in Nat
  /\ status \in Bytes
  /\ shown \in Nat /\ exitFrame \in Bytes \cup {NoStatus} /\ unread \in Nat
  /\ peerOpen \in BOOLEAN /\ inbox \in Seq(InputFrames) /\ asked \in Nat
  /\ waiter \in {"none", "waiting", "sent"}
  /\ reader \in {"none", "ready", "reading", "sending", "closed"}
  /\ inputs \in {"none", "reading", "writing", "done", "refused"}

\* What has become of the session for its peer.
Result ==
  IF exitFrame # NoStatus THEN [kind |-> "exited", status |-> exitFrame]
  ELSE IF main = "closed" THEN [kind |-> "cut"] ELSE [kind |-> "open"]

Channel == INSTANCE ShellChannel WITH Statuses <- Bytes, result <- Result

\* session.go:51-52 "which is the model's drain, then exit order": the session is a shell channel.
\* The peer gets the output without gaps and the status only after all of it, whichever of the
\* process, its background, the output and the input ends first.
ImplementsChannel == Channel!ChannelSpec

\* session.go:56-60, 69-74, 145-157: when the handler has returned, the shell has ended and has
\* been waited for, whoever closed first.
NoShellLeft == main \in {"return", "closed"} => shell # Running /\ waiter # "waiting"

\* A status that is sent is the one the shell ended with.
TrueStatus == exitFrame # NoStatus => exitFrame = ExitStatus(shell)

\* session.go:53-81, docs/model.md:1804-1805 "After the shell exits, the agent drains remaining PTY
\* output, sends the exit frame, then closes": a session that has started ends without an exit frame
\* only when the peer has gone or has sent a frame that is not valid.
ExitFrameSent ==
  main = "closed" /\ shell # None /\ peerOpen => exitFrame # NoStatus \/ inputs = "refused"
=============================================================================
