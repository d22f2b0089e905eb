---------------------------- MODULE ShellChannel ----------------------------
(***************************************************************************)
(* What a shell session promises the peer of its connection: the terminal's *)
(* output in order without gaps, then at most one exit status, and nothing  *)
(* after it.  A session may also be cut off, without a status.              *)
(***************************************************************************)
EXTENDS Naturals

CONSTANT Statuses   \* exit statuses a shell can have

VARIABLES
  written,   \* how much output the processes on the terminal have written
  shown,     \* how much of it has been sent to the peer
  result     \* "open", "cut", or the exit status that was sent

Open == [kind |-> "open"]
Cut == [kind |-> "cut"]
Exited(status) == [kind |-> "exited", status |-> status]

channelVars == <<written, shown, result>>

ChannelInit == written = 0 /\ shown = 0 /\ result = Open

\* No output appears once the exit status is out.
Write == result.kind # "exited" /\ written' = written + 1 /\ UNCHANGED <<shown, result>>

Show ==
  /\ result = Open
  /\ shown' \in (shown + 1)..written
  /\ UNCHANGED <<written, result>>

\* The status follows everything that was written.
Exit ==
  /\ result = Open /\ shown = written
  /\ \E status \in Statuses : result' = Exited(status)
  /\ UNCHANGED <<written, shown>>

CutOff == result = Open /\ result' = Cut /\ UNCHANGED <<written, shown>>

ChannelNext == Write \/ Show \/ Exit \/ CutOff

ChannelSpec == ChannelInit /\ [][ChannelNext]_channelVars
=============================================================================
