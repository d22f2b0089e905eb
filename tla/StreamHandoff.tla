---------------------------- MODULE StreamHandoff ----------------------------
(***************************************************************************)
(* Opening streams to one node: Streams.open_until in the process of the   *)
(* caller, Streams.Pending between them, the attach handler that moves the *)
(* socket of the stream to the caller, and the child of the node that      *)
(* dials it.  A step is one message taken from a mailbox, one call of      *)
(* Pending, or one call on a socket.                                       *)
(*                                                                         *)
(* A stream stands for its id, its caller, its handler and its socket.  A  *)
(* monitor is not a message here: its DOWN is there from the death of the  *)
(* watched process on, also when the watch starts later.  Whether the node *)
(* admits a stream is Access's business and any answer is possible.        *)
(***************************************************************************)
EXTENDS Naturals, FiniteSets

CONSTANTS
  Streams,          \* stream ids, one for each call of open_until
  MaxConnections,   \* bound: control connections that become ready
  MaxRestarts       \* bound: restarts of Pending

ASSUME HandoffConstants == MaxConnections \in Nat /\ MaxRestarts \in Nat

VARIABLES
  ready,      \* the ready connection in the registry, or 0
  made,       \* connections that have become ready
  alive,      \* control connection processes that have not ended
  restarts,   \* restarts of Pending
  entry,      \* Pending: the connection that each stream waits on, or 0
  caller,     \* where the caller is
  on,         \* the connection the caller captured
  expired,    \* whether the deadline of the caller has passed
  mailbox,    \* messages about the stream in the mailbox of the caller
  asked,      \* open_stream calls in the mailbox of the control connection
  handler,    \* where the attach handler is
  socket,     \* who controls the server's end of the socket
  child       \* where the child of the node is

connections == <<ready, made, alive>>
pending == <<restarts, entry>>
callers == <<caller, on, expired>>
handoffVars == <<connections, pending, callers, mailbox, asked, handler, socket, child>>

Errors == {"timeout", "unavailable", "refused"}
Waiting == {"registering", "calling", "await", "abandon", "abandon_lost", "drain",
            "handoff", "kill_timeout", "kill_lost"}
Ended == Errors \cup {"open", "dead"}

HandoffInit ==
  /\ ready = 0 /\ made = 0 /\ alive = {}
  /\ restarts = 0 /\ entry = [s \in Streams |-> 0]
  /\ caller = [s \in Streams |-> "idle"]
  /\ on = [s \in Streams |-> 0]
  /\ expired = [s \in Streams |-> FALSE]
  /\ mailbox = [s \in Streams |-> {}]
  /\ asked = {}
  /\ handler = [s \in Streams |-> "none"]
  /\ socket = [s \in Streams |-> "none"]
  /\ child = [s \in Streams |-> "none"]

-----------------------------------------------------------------------------
(* Control connections.                                                    *)

\* Synchronized: the registered connection becomes ready.
BecomeReady ==
  /\ alive = {} /\ made < MaxConnections
  /\ made' = made + 1 /\ ready' = made + 1 /\ alive' = {made + 1}
  /\ UNCHANGED <<pending, callers, mailbox, asked, handler, socket, child>>

\* What Pending does to the entries of `streams`: their callers are told.
FailEntries(streams) ==
  /\ entry' = [s \in Streams |-> IF s \in streams THEN 0 ELSE entry[s]]
  /\ mailbox' = [s \in Streams |-> IF s \in streams THEN mailbox[s] \cup {"failed"} ELSE mailbox[s]]

\* cleanup/1, which every orderly end runs: first the registry entry goes.
Unregister ==
  /\ ready # 0
  /\ ready' = 0
  /\ UNCHANGED <<made, alive, pending, callers, mailbox, asked, handler, socket, child>>

\* Mutant of ControlLost: the entries go without a word to their callers.
ControlLostSilently(c) ==
  /\ c \in alive /\ ready = 0
  /\ entry' = [s \in Streams |-> IF entry[s] = c THEN 0 ELSE entry[s]]
  /\ alive' = alive \ {c}
  /\ asked' = asked \ {s \in Streams : on[s] = c}
  /\ UNCHANGED <<ready, made, restarts, callers, mailbox, handler, socket, child>>

\* Then Pending.control_lost/1, and the process ends with its mailbox unread.
ControlLost(c) ==
  /\ c \in alive /\ ready = 0
  /\ FailEntries({s \in Streams : entry[s] = c})
  /\ alive' = alive \ {c}
  /\ asked' = asked \ {s \in Streams : on[s] = c}
  /\ UNCHANGED <<ready, made, restarts, callers, handler, socket, child>>

\* A connection that is killed runs no callback.
ConnectionKilled(c) ==
  /\ c \in alive
  /\ alive' = alive \ {c}
  /\ ready' = 0
  /\ asked' = asked \ {s \in Streams : on[s] = c}
  /\ UNCHANGED <<made, pending, callers, mailbox, handler, socket, child>>

\* handle_call({:open_stream, message}): the message goes to the node and the
\* caller, if it still waits, gets :ok; or the socket fails, the caller gets
\* an error and the connection ends.
HandleOpenStream(s) ==
  /\ s \in asked /\ ready = on[s]
  /\ asked' = asked \ {s}
  /\ \/ /\ child' = [child EXCEPT ![s] = "asked"]
        /\ caller' = [caller EXCEPT ![s] = IF @ = "calling" THEN "await" ELSE @]
        /\ UNCHANGED ready
     \/ /\ caller' = [caller EXCEPT ![s] = IF @ = "calling" THEN "abandon_lost" ELSE @]
        /\ ready' = 0
        /\ UNCHANGED child
  /\ UNCHANGED <<made, alive, pending, on, expired, mailbox, handler, socket>>

\* StreamFailed, from a refused open or a failed child, on the connection that
\* is ready when the node sends it.
HandleStreamFailed(s) ==
  /\ child[s] = "failed" /\ ready # 0
  /\ FailEntries({s} \cap {t \in Streams : entry[t] # 0})
  /\ child' = [child EXCEPT ![s] = "gone"]
  /\ UNCHANGED <<connections, restarts, callers, asked, handler, socket>>

-----------------------------------------------------------------------------
(* Pending, when a process it watches has ended, or when it has itself.    *)

\* DOWN of a connection: fail_connection/2.
PendingSeesConnectionDown(c) ==
  /\ c \in 1..made /\ c \notin alive
  /\ \E s \in Streams : entry[s] = c
  /\ FailEntries({s \in Streams : entry[s] = c})
  /\ UNCHANGED <<connections, restarts, callers, asked, handler, socket, child>>

\* DOWN of a caller: drop_waiter/2.
PendingSeesCallerDown(s) ==
  /\ entry[s] # 0 /\ caller[s] = "dead"
  /\ entry' = [entry EXCEPT ![s] = 0]
  /\ UNCHANGED <<connections, restarts, callers, mailbox, asked, handler, socket, child>>

PendingRestarts ==
  /\ restarts < MaxRestarts
  /\ restarts' = restarts + 1
  /\ entry' = [s \in Streams |-> 0]
  /\ UNCHANGED <<connections, callers, mailbox, asked, handler, socket, child>>

-----------------------------------------------------------------------------
(* The caller.                                                             *)

\* ready_connection/1, which is read once, and the first look at the deadline.
OpenUntil(s) ==
  /\ caller[s] = "idle"
  /\ caller' = [caller EXCEPT ![s] = IF ready = 0 THEN "unavailable"
                                     ELSE IF expired[s] THEN "timeout" ELSE "registering"]
  /\ on' = [on EXCEPT ![s] = ready]
  /\ UNCHANGED <<connections, pending, expired, mailbox, asked, handler, socket, child>>

\* Time passes.
DeadlinePasses(s) ==
  /\ ~expired[s] /\ caller[s] \notin Ended
  /\ expired' = [expired EXCEPT ![s] = TRUE]
  /\ UNCHANGED <<connections, pending, caller, on, mailbox, asked, handler, socket, child>>

\* Pending.register/6, then the call of the connection captured before it.
Register(s) ==
  /\ caller[s] = "registering"
  /\ entry' = [entry EXCEPT ![s] = on[s]]
  /\ caller' = [caller EXCEPT ![s] = "calling"]
  /\ asked' = IF on[s] \in alive THEN asked \cup {s} ELSE asked
  /\ UNCHANGED <<connections, restarts, on, expired, mailbox, handler, socket, child>>

\* open_stream/3 catches an exit: the connection has died, or the call timed
\* out.  The call itself stays in the mailbox of a connection that lives.
OpenStreamExits(s) ==
  /\ caller[s] = "calling"
  /\ on[s] \notin alive \/ expired[s]
  /\ caller' = [caller EXCEPT ![s] = "abandon_lost"]
  /\ UNCHANGED <<connections, pending, on, expired, mailbox, asked, handler, socket, child>>

\* await/3 and drain/3 take the message that Pending put in the mailbox.
ReceiveFailed(s) ==
  /\ caller[s] \in {"await", "drain"} /\ "failed" \in mailbox[s]
  /\ caller' = [caller EXCEPT ![s] = "refused"]
  /\ mailbox' = [mailbox EXCEPT ![s] = @ \ {"failed"}]
  /\ UNCHANGED <<connections, pending, on, expired, asked, handler, socket, child>>

ReceiveClaimed(s) ==
  /\ caller[s] \in {"await", "drain"} /\ "claimed" \in mailbox[s]
  /\ caller' = [caller EXCEPT ![s] = "handoff"]
  /\ mailbox' = [mailbox EXCEPT ![s] = @ \ {"claimed"}]
  /\ UNCHANGED <<connections, pending, on, expired, asked, handler, socket, child>>

\* Mutant of AwaitTimesOut: the caller gives up without asking Pending.
AwaitGivesUp(s) ==
  /\ caller[s] = "await" /\ expired[s] /\ mailbox[s] = {}
  /\ caller' = [caller EXCEPT ![s] = "timeout"]
  /\ UNCHANGED <<connections, pending, on, expired, mailbox, asked, handler, socket, child>>

\* Mutant of AwaitTimesOut: the wait has no limit of its own.
AwaitConnectionEnd(s) ==
  /\ caller[s] = "await" /\ on[s] \notin alive /\ mailbox[s] = {}
  /\ caller' = [caller EXCEPT ![s] = "abandon"]
  /\ UNCHANGED <<connections, pending, on, expired, mailbox, asked, handler, socket, child>>

\* await/3 after the time that is left.
AwaitTimesOut(s) ==
  /\ caller[s] = "await" /\ expired[s] /\ mailbox[s] = {}
  /\ caller' = [caller EXCEPT ![s] = "abandon"]
  /\ UNCHANGED <<connections, pending, on, expired, mailbox, asked, handler, socket, child>>

\* deadline/4: Pending.abandon/1 either removes the entry or finds it gone.
Abandon(s) ==
  /\ caller[s] \in {"abandon", "abandon_lost"}
  /\ caller' = [caller EXCEPT ![s] = IF entry[s] = 0 THEN "drain"
                                     ELSE IF @ = "abandon" THEN "timeout" ELSE "unavailable"]
  /\ entry' = [entry EXCEPT ![s] = 0]
  /\ UNCHANGED <<connections, restarts, on, expired, mailbox, asked, handler, socket, child>>

\* drain/3 after 0.
DrainFindsNothing(s) ==
  /\ caller[s] = "drain" /\ mailbox[s] \cap {"failed", "claimed"} = {}
  /\ caller' = [caller EXCEPT ![s] = "timeout"]
  /\ UNCHANGED <<connections, pending, on, expired, mailbox, asked, handler, socket, child>>

\* await_handoff/5: the four ways out of it.
ReceiveAttached(s) ==
  /\ caller[s] = "handoff" /\ "attached" \in mailbox[s]
  /\ caller' = [caller EXCEPT ![s] = "open"]
  /\ mailbox' = [mailbox EXCEPT ![s] = @ \ {"attached"}]
  /\ UNCHANGED <<connections, pending, on, expired, asked, handler, socket, child>>

\* The handler's messages arrive in its order: DOWN is the first only if it failed.
HandlerDown(s) ==
  /\ caller[s] = "handoff" /\ handler[s] = "dead" /\ "attached" \notin mailbox[s]
  /\ caller' = [caller EXCEPT ![s] = "unavailable"]
  /\ socket' = [socket EXCEPT ![s] = "closed"]
  /\ UNCHANGED <<connections, pending, on, expired, mailbox, asked, handler, child>>

HandoffAbandoned(s) ==
  /\ caller[s] = "handoff"
  /\ \/ on[s] \notin alive /\ caller' = [caller EXCEPT ![s] = "kill_lost"]
     \/ /\ expired[s] /\ "attached" \notin mailbox[s]
        /\ caller' = [caller EXCEPT ![s] = "kill_timeout"]
  /\ UNCHANGED <<connections, pending, on, expired, mailbox, asked, handler, socket, child>>

GaveUp(s) == IF caller[s] = "kill_lost" THEN "unavailable" ELSE "timeout"

\* Mutant of AbandonHandoff: the caller trusts the handler's death to close the socket.
AbandonHandoffUnclosed(s) ==
  /\ caller[s] \in {"kill_timeout", "kill_lost"}
  /\ caller' = [caller EXCEPT ![s] = GaveUp(s)]
  /\ handler' = [handler EXCEPT ![s] = "dead"]
  /\ socket' = [socket EXCEPT ![s] = IF @ = "handler" THEN "closed" ELSE @]
  /\ UNCHANGED <<connections, pending, on, expired, mailbox, asked, child>>

\* abandon_handoff/3: kill the handler, wait for its end, close the socket.
\* The handler goes on until the signal reaches it, which takes less than the
\* 5 seconds after which the caller would close the socket all the same.
AbandonHandoff(s) ==
  /\ caller[s] \in {"kill_timeout", "kill_lost"}
  /\ caller' = [caller EXCEPT ![s] = GaveUp(s)]
  /\ handler' = [handler EXCEPT ![s] = "dead"]
  /\ socket' = [socket EXCEPT ![s] = "closed"]
  /\ UNCHANGED <<connections, pending, on, expired, mailbox, asked, child>>

\* The owner of an open stream closes it.
CloseStream(s) ==
  /\ caller[s] = "open" /\ socket[s] # "closed"
  /\ socket' = [socket EXCEPT ![s] = "closed"]
  /\ UNCHANGED <<connections, pending, callers, mailbox, asked, handler, child>>

\* The caller is a request, WebSocket or SSH process and may die at any step.
CallerDies(s) ==
  /\ caller[s] \in Waiting \cup {"open"}
  /\ caller' = [caller EXCEPT ![s] = "dead"]
  /\ socket' = [socket EXCEPT ![s] = IF @ = "caller" THEN "closed" ELSE @]
  /\ UNCHANGED <<connections, pending, on, expired, mailbox, asked, handler, child>>

-----------------------------------------------------------------------------
(* The handler of an attach connection.                                    *)

\* Pending.attach/5: a stream that waits on the ready connection is claimed,
\* any other is rejected and the connection closed.
Attach(s) ==
  /\ handler[s] = "handshake"
  /\ IF entry[s] # 0 /\ entry[s] = on[s] /\ ready = on[s]
       THEN /\ entry' = [entry EXCEPT ![s] = 0]
            /\ mailbox' = [mailbox EXCEPT ![s] = @ \cup {"claimed"}]
            /\ handler' = [handler EXCEPT ![s] = "claimed"]
            /\ UNCHANGED socket
       ELSE /\ handler' = [handler EXCEPT ![s] = "dead"]
            /\ socket' = [socket EXCEPT ![s] = "closed"]
            /\ UNCHANGED <<entry, mailbox>>
  /\ UNCHANGED <<connections, restarts, callers, asked, child>>

\* hand_off/4: setopts and controlling_process.  A caller that has died takes
\* the socket with it.
MoveSocket(s) ==
  /\ handler[s] = "claimed" /\ socket[s] = "handler"
  /\ handler' = [handler EXCEPT ![s] = "moved"]
  /\ socket' = [socket EXCEPT ![s] = IF caller[s] = "dead" THEN "closed" ELSE "caller"]
  /\ UNCHANGED <<connections, pending, callers, mailbox, asked, child>>

\* hand_off/4: Attached is written to the socket.
SendAttached(s) ==
  /\ handler[s] = "moved" /\ socket[s] = "caller" /\ child[s] = "attaching"
  /\ handler' = [handler EXCEPT ![s] = "told"]
  /\ child' = [child EXCEPT ![s] = "relaying"]
  /\ UNCHANGED <<connections, pending, callers, mailbox, asked, socket>>

\* hand_off/4: the caller is told, and watched from then on.
TellCaller(s) ==
  /\ handler[s] = "told"
  /\ handler' = [handler EXCEPT ![s] = "stream"]
  /\ mailbox' = [mailbox EXCEPT ![s] = @ \cup {"attached"}]
  /\ UNCHANGED <<connections, pending, callers, asked, socket, child>>

\* A call of hand_off/4 fails on a socket that either end has closed: the
\* handler closes it and ends.
HandoffFails(s) ==
  /\ handler[s] \in {"claimed", "moved"}
  /\ socket[s] = "closed" \/ child[s] # "attaching"
  /\ handler' = [handler EXCEPT ![s] = "dead"]
  /\ socket' = [socket EXCEPT ![s] = "closed"]
  /\ UNCHANGED <<connections, pending, callers, mailbox, asked, child>>

\* A handler is killed, and a socket it still controls goes with it.
HandlerKilled(s) ==
  /\ handler[s] \in {"handshake", "claimed", "moved", "told"}
  /\ handler' = [handler EXCEPT ![s] = "dead"]
  /\ socket' = [socket EXCEPT ![s] = IF @ = "handler" THEN "closed" ELSE @]
  /\ UNCHANGED <<connections, pending, callers, mailbox, asked, child>>

\* DOWN of the caller: a handler that has handed over ends.
HandlerSeesOwnerDown(s) ==
  /\ handler[s] = "stream" /\ caller[s] = "dead"
  /\ handler' = [handler EXCEPT ![s] = "dead"]
  /\ UNCHANGED <<connections, pending, callers, mailbox, asked, socket, child>>

-----------------------------------------------------------------------------
(* The child of the node.                                                  *)

\* Streams.admit/6 and open_agent/1, and then the attach connection is dialed;
\* or one of them fails.
ChildDials(s) ==
  /\ child[s] = "asked"
  /\ \/ /\ child' = [child EXCEPT ![s] = "attaching"]
        /\ handler' = [handler EXCEPT ![s] = "handshake"]
        /\ socket' = [socket EXCEPT ![s] = "handler"]
     \/ /\ child' = [child EXCEPT ![s] = "failed"]
        /\ UNCHANGED <<handler, socket>>
  /\ UNCHANGED <<connections, pending, callers, mailbox, asked>>

\* await_attached/1: the server rejected, closed, or said nothing for too long.
AttachFails(s) ==
  /\ child[s] = "attaching"
  /\ child' = [child EXCEPT ![s] = "failed"]
  /\ UNCHANGED <<connections, pending, callers, mailbox, asked, handler, socket>>

\* The relays see the server's end closed.
RelayEnds(s) ==
  /\ child[s] = "relaying" /\ socket[s] = "closed"
  /\ child' = [child EXCEPT ![s] = "gone"]
  /\ UNCHANGED <<connections, pending, callers, mailbox, asked, handler, socket>>

\* The child ends or is terminated: its group was closed, or the node has lost
\* the connection that the stream was opened on.  A failure may go unreported.
ChildTerminated(s) ==
  /\ child[s] \in {"asked", "attaching", "relaying", "failed"}
  /\ child' = [child EXCEPT ![s] = "gone"]
  /\ UNCHANGED <<connections, pending, callers, mailbox, asked, handler, socket>>

CallerStep(s) ==
  \/ OpenUntil(s) \/ Register(s) \/ OpenStreamExits(s) \/ ReceiveFailed(s) \/ ReceiveClaimed(s)
  \/ AwaitTimesOut(s) \/ Abandon(s) \/ DrainFindsNothing(s)
  \/ ReceiveAttached(s) \/ HandlerDown(s) \/ HandoffAbandoned(s) \/ AbandonHandoff(s)

HandlerStep(s) ==
  Attach(s) \/ MoveSocket(s) \/ SendAttached(s) \/ TellCaller(s) \/ HandoffFails(s) \/ HandlerSeesOwnerDown(s)

PendingStep ==
  \/ \E c \in 1..MaxConnections : PendingSeesConnectionDown(c)
  \/ \E s \in Streams : PendingSeesCallerDown(s)

HandoffNext ==
  \/ BecomeReady \/ Unregister \/ PendingRestarts \/ PendingStep
  \/ \E c \in 1..MaxConnections : ControlLost(c) \/ ConnectionKilled(c)
  \/ \E s \in Streams :
       \/ CallerStep(s) \/ DeadlinePasses(s) \/ CloseStream(s) \/ CallerDies(s)
       \/ HandleOpenStream(s) \/ HandleStreamFailed(s)
       \/ HandlerStep(s) \/ HandlerKilled(s)
       \/ ChildDials(s) \/ AttachFails(s) \/ RelayEnds(s) \/ ChildTerminated(s)

HandoffSpec == HandoffInit /\ [][HandoffNext]_handoffVars

\* Processes that can take a step take it, time passes, an attach that is not
\* answered times out and a closed socket is noticed.  A connection that has
\* begun to end does so.  Nothing else has to happen.
HandoffFairness ==
  /\ WF_handoffVars(PendingStep)
  /\ \A c \in 1..MaxConnections : WF_handoffVars(ControlLost(c))
  /\ \A s \in Streams :
       /\ WF_handoffVars(CallerStep(s) /\ caller[s] # "idle")
       /\ WF_handoffVars(DeadlinePasses(s))
       /\ WF_handoffVars(HandlerStep(s))
       /\ WF_handoffVars(AttachFails(s)) /\ WF_handoffVars(RelayEnds(s))

FairHandoffSpec == HandoffSpec /\ HandoffFairness

-----------------------------------------------------------------------------
Claimed == {"claimed", "moved", "told", "stream"}

\* Every variable keeps its type.
HandoffTypeOK ==
  /\ made \in 0..MaxConnections /\ ready \in 0..made /\ alive \subseteq 1..made
  /\ restarts \in 0..MaxRestarts
  /\ entry \in [Streams -> 0..MaxConnections] /\ on \in [Streams -> 0..MaxConnections]
  /\ caller \in [Streams -> {"idle"} \cup Waiting \cup Ended]
  /\ expired \in [Streams -> BOOLEAN]
  /\ mailbox \in [Streams -> SUBSET {"failed", "claimed", "attached"}]
  /\ asked \subseteq Streams
  /\ handler \in [Streams -> {"none", "handshake", "dead"} \cup Claimed]
  /\ socket \in [Streams -> {"none", "handler", "caller", "closed"}]
  /\ child \in [Streams -> {"none", "asked", "attaching", "relaying", "failed", "gone"}]

\* streams.ex 178-179 and 242-244: an open that has returned an error leaves
\* nothing behind: the caller controls no socket that it does not know of, and
\* no handler is about to give it one.
NoSocketLeft ==
  \A s \in Streams : caller[s] \in Errors => socket[s] # "caller" /\ handler[s] \notin Claimed

\* pending.ex 5-8, streams.ex 178-179: a stream is claimed, or reported as failed,
\* never both; and when Pending says that the entry is gone, what took it has
\* already put that answer in the mailbox, which only a restarted Pending cannot.
OneAnswer ==
  \A s \in Streams :
    /\ handler[s] \in Claimed => "failed" \notin mailbox[s] /\ caller[s] # "refused"
    /\ caller[s] = "drain" /\ restarts = 0 => mailbox[s] \cap {"failed", "claimed"} # {}

\* connection.ex (server) 638-641: the node does not send a byte of the stream
\* before the caller controls the socket.
SendsToOwner ==
  \A s \in Streams : child[s] = "relaying" => socket[s] \in {"caller", "closed"}

\* streams.ex 51-88 and pending.ex 156-207: every open ends, whatever dies or
\* stays silent, and so does the entry that Pending keeps of it.
OpenEnds ==
  \A s \in Streams :
    /\ caller[s] \in Waiting ~> caller[s] \in Ended
    /\ entry[s] # 0 ~> entry[s] = 0

\* streams.ex 242-243: a stream that nobody owns ends at the node too.
UnownedStreamEnds ==
  \A s \in Streams :
    caller[s] \in Errors \cup {"dead"} /\ child[s] \in {"attaching", "relaying"}
      ~> child[s] \in {"failed", "gone"}
=============================================================================
