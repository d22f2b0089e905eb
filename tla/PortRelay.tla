------------------------------ MODULE PortRelay ------------------------------
(***************************************************************************)
(* portrelay.Relay: two io.Copy goroutines between the node's connection    *)
(* ("peer") and a connection to a port of the biot ("service").  Bytes are  *)
(* counted, since a connection keeps their order.                          *)
(***************************************************************************)
EXTENDS Naturals

CONSTANTS
  MaxBytes,    \* bound: units each end writes
  PipeSize     \* units a connection holds before a write to it blocks

ASSUME RelayConstants == MaxBytes \in Nat /\ PipeSize \in Nat \ {0}

Ends == {"peer", "service"}
Other(e) == IF e = "peer" THEN "service" ELSE "peer"

VARIABLES
  relay,      \* "idle", then what Relay waits for: "first", "second", "over"
  copier,     \* the goroutine that copies from each end
  finished,   \* values in the done channel
  offered,    \* what each end has written
  read,       \* what was read from each end
  copied,     \* what of it was written to the other end
  waiting,    \* what each end has been given and has not read
  open        \* the ends that have not closed

relayVars == <<relay, copier, finished, offered, read, copied, waiting, open>>

RelayInit ==
  /\ relay = "idle" /\ finished = 0
  /\ copier = [e \in Ends |-> "none"]
  /\ offered = [e \in Ends |-> 0] /\ read = offered /\ copied = offered /\ waiting = offered
  /\ open = Ends

\* Relay holds its two connections until it has closed them.
Connected == relay \in {"idle", "first"}

-----------------------------------------------------------------------------
(* The ends.                                                               *)

EndWrites(e) ==
  /\ e \in open /\ Connected
  /\ offered[e] < MaxBytes /\ offered' = [offered EXCEPT ![e] = @ + 1]
  /\ UNCHANGED <<relay, copier, finished, read, copied, waiting, open>>

EndReads(e) ==
  /\ e \in open
  /\ waiting[e] > 0 /\ waiting' = [waiting EXCEPT ![e] = @ - 1]
  /\ UNCHANGED <<relay, copier, finished, offered, read, copied, open>>

EndCloses(e) ==
  /\ e \in open /\ open' = open \ {e}
  /\ UNCHANGED <<relay, copier, finished, offered, read, copied, waiting>>

-----------------------------------------------------------------------------
\* Relay starts on the reader that may hold bytes from behind the request line.
Begin ==
  /\ relay = "idle" /\ relay' = "first"
  /\ copier' = [e \in Ends |-> "reading"]
  /\ UNCHANGED <<finished, offered, read, copied, waiting, open>>

Finish(e) == copier' = [copier EXCEPT ![e] = "done"] /\ finished' = finished + 1

\* io.Copy reads some of what there is.
CopyRead(e) ==
  /\ copier[e] = "reading" /\ Connected
  /\ \E n \in 1..(offered[e] - read[e]) : read' = [read EXCEPT ![e] = @ + n]
  /\ copier' = [copier EXCEPT ![e] = "writing"]
  /\ UNCHANGED <<relay, finished, offered, copied, waiting, open>>

\* Mutant of SourceOver: what the source wrote before it closed is not read.
SourceOverAtClose(e) == e \notin open \/ ~Connected

\* The source is drained and has closed, or Relay has closed it.
SourceOver(e) == (e \notin open /\ read[e] = offered[e]) \/ ~Connected

CopyReadEnds(e) ==
  /\ copier[e] = "reading" /\ SourceOver(e)
  /\ Finish(e)
  /\ UNCHANGED <<relay, offered, read, copied, waiting, open>>

\* A write blocks while the other end does not read and fails once that end or Relay has closed it.
CopyWrite(e) ==
  /\ copier[e] = "writing"
  /\ \/ /\ Connected /\ Other(e) \in open /\ waiting[Other(e)] < PipeSize
        /\ copied' = [copied EXCEPT ![e] = read[e]]
        /\ waiting' = [waiting EXCEPT ![Other(e)] = @ + 1]
        /\ copier' = [copier EXCEPT ![e] = "reading"] /\ UNCHANGED finished
     \/ /\ ~Connected \/ Other(e) \notin open
        /\ Finish(e) /\ UNCHANGED <<copied, waiting>>
  /\ UNCHANGED <<relay, offered, read, open>>

\* Mutant of FirstDone: the connections are closed once both copies have ended.
BothDone ==
  /\ relay = "first" /\ finished > 1
  /\ finished' = finished - 1 /\ relay' = "second"
  /\ UNCHANGED <<copier, offered, read, copied, waiting, open>>

\* The first copy that ends closes both connections, which ends the other.
FirstDone ==
  /\ relay = "first" /\ finished > 0
  /\ finished' = finished - 1 /\ relay' = "second"
  /\ UNCHANGED <<copier, offered, read, copied, waiting, open>>

SecondDone ==
  /\ relay = "second" /\ finished > 0
  /\ finished' = finished - 1 /\ relay' = "over"
  /\ UNCHANGED <<copier, offered, read, copied, waiting, open>>

Copy(e) == CopyRead(e) \/ CopyReadEnds(e) \/ CopyWrite(e)

RelayFairness ==
  /\ \A e \in Ends : WF_relayVars(Copy(e))
  /\ WF_relayVars(FirstDone) /\ WF_relayVars(SecondDone)

-----------------------------------------------------------------------------
\* relay.go:20-28, docs/model.md:1794 "raw bytes both ways until either side closes": an end that
\* stays gets everything the other wrote before it closed, unless a write of its own was in the way.
TailDelivered ==
  \A e \in Ends :
    relay = "over" /\ Other(e) \in open /\ copied[Other(e)] = offered[Other(e)] =>
      copied[e] = offered[e]
=============================================================================
