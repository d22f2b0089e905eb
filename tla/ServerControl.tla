---------------------------- MODULE ServerControl ----------------------------
(***************************************************************************)
(* The state of one server and one node joined by a control connection,    *)
(* and the server's half of it: Biot.Server.Control.Connection on top of   *)
(* the rows of Lifecycle.  Delivery adds the node's half.                  *)
(*                                                                         *)
(* A connection is a pair of ordered byte streams.  Each end notices a     *)
(* loss by itself, so `down` belongs to the socket the node holds and `up` *)
(* to the process the server has registered, which may be of different     *)
(* connections.  What the journal holds survives a crash of the node.      *)
(*                                                                         *)
(* Left to other modules: the outbox's own races (Outbox), access          *)
(* revisions and streams, resolutions, secrets and diagnostics.            *)
(* Nothing changes environments here and no container exits by itself.     *)
(***************************************************************************)
EXTENDS Lifecycle, Sequences, SequencesExt

CONSTANTS MaxConnections,  \* bound: connections made; only a crash loses the last one
          MaxQueue,        \* bound: messages in flight before a sweep or a drain adds to them
          MaxFailures,     \* bound: failed host actions
          MaxCrashes,      \* bound: node and server crashes
          LastCrash        \* bound: connections made before the last crash

ASSUME DeliveryConstants ==
         /\ MaxConnections \in Nat /\ MaxQueue \in Nat
         /\ MaxFailures \in Nat /\ MaxCrashes \in Nat /\ LastCrash \in Nat
         /\ \A change \in ChangesAsked : change.kind # "update_environment"

VARIABLES
  obsConn,   \* the connection each stored observation came on
  toWake,    \* biots whose biot_spec_changed was not handled or not even sent
  server,    \* the registered connection process: [conn, phase, todo, items]
  closing,   \* whether registration_changed is in its mailbox
  agent,     \* the node's connection process: [conn, phase, announce]
  made,      \* connections dialed so far
  hellos,    \* connections whose hello the server has not read
  claiming,  \* connections that are authenticated but not registered
  down, up,  \* messages in flight
  outbox,    \* the newest unsent report of each biot
  intent,    \* the journal's local intents
  receipt,   \* the journal's destruction reports
  retry,     \* the journal's retry record of the intent's revision: [failure, due]
  host,      \* what the node really holds: [data, prepared, env, container]
  ctl,       \* controllers: [phase, spec, action, at, retry]
  poked,     \* controllers with an intent_changed cast in their mailbox
  stray,     \* the effect a stopped controller left behind
  faults     \* [failures, crashes] so far

serverVars == <<toWake, server, closing>>
linkVars == <<made, hellos, claiming, down, up>>
journalVars == <<intent, receipt, retry>>
controllerVars == <<outbox, ctl, poked, stray>>
nodeVars == <<agent, journalVars, controllerVars, host, faults>>
deliveryVars == <<lifecycleVars, obsConn, serverVars, linkVars, nodeVars>>

NoIntent == NotCreated
NoRetry == [failure |-> "none", due |-> FALSE]
NoController ==
  [phase |-> "none", spec |-> NoIntent, action |-> "none", at |-> 0, retry |-> NoRetry]
Clean ==
  [data |-> "no_allocation", prepared |-> FALSE, env |-> NoEnv, container |-> "absent"]
NoSpecs == [b \in Biots |-> NoIntent]
NoConnection == [conn |-> 0, phase |-> "none", todo |-> {}, items |-> NoSpecs]
Disconnected == [conn |-> 0, phase |-> "down", announce |-> FALSE]

DeliveryInit ==
  /\ LifecycleInit
  /\ obsConn = [b \in Biots |-> 0]
  /\ toWake = {} /\ closing = FALSE
  /\ server = NoConnection
  /\ agent = Disconnected
  /\ made = 0 /\ hellos = {} /\ claiming = {}
  /\ down = <<>> /\ up = <<>>
  /\ outbox = [b \in Biots |-> NoReport]
  /\ intent = [b \in Biots |-> NoIntent]
  /\ receipt = [b \in Biots |-> NoReport]
  /\ retry = [b \in Biots |-> NoRetry]
  /\ host = [b \in Biots |-> Clean]
  /\ ctl = [b \in Biots |-> NoController]
  /\ poked = {}
  /\ stray = [b \in Biots |-> NoController]
  /\ faults = [failures |-> 0, crashes |-> 0]

-----------------------------------------------------------------------------
(* Commands.  The request process commits and then wakes the connection;   *)
(* it may die in between.                                                  *)

Request(b) ==
  /\ \/ \E initial \in InitialStates, env \in Envs : Create(b, initial, env)
     \/ \E expected \in Revisions, change \in ChangesAsked : ChangeLifecycle(b, expected, change)
     \/ Destroy(b)
  /\ toWake' = IF node.status = "abandoned" THEN toWake ELSE toWake \cup {b}
  /\ UNCHANGED <<obsConn, server, closing, linkVars, nodeVars>>

\* The request process dies between its commit and its effects, or nobody is
\* subscribed, or the connection that is goes away with the wake unread.
LoseWake(b) ==
  /\ b \in toWake
  /\ toWake' = toWake \ {b}
  /\ UNCHANGED <<lifecycleVars, obsConn, server, closing, linkVars, nodeVars>>

\* Nodes.reload/0: a status that serves no access closes the connection.
ReloadNodes ==
  /\ made < MaxConnections   \* it may close the connection
  /\ Reload /\ node' # node
  /\ closing' = (closing \/ (node'.status \notin {node.status, "enabled"} /\ server.phase # "none"))
  /\ UNCHANGED <<obsConn, toWake, server, linkVars, nodeVars>>

-----------------------------------------------------------------------------
(* The server's connection process.                                        *)

\* Synchronization.included?/2.
Included(b) ==
  /\ Created(b)
  /\ ~(biot[b].state = "destroyed" /\ obs[b] # NoReport /\ obs[b].data = "no_allocation")

\* Mutant of Accepted: the revision before the desired one counts too.
AcceptedOneBehind(b) == obsConn[b] = server.conn /\ obs[b].revision + 1 >= biot[b].revision

Accepted(b) == obsConn[b] = server.conn /\ obs[b].revision >= biot[b].revision
Behind == {b \in Biots : Included(b) /\ ~Accepted(b)}

ToNode(messages) == IF agent.conn = server.conn THEN down \o messages ELSE down
DesiredMessage(b) == [type |-> "desired", biot |-> b, spec |-> biot[b]]

\* Hello, up to claim_node: the status is read here and not again.
Authenticate(c) ==
  /\ c \in hellos
  /\ node.status \in {"enabled", "disabled"}
  /\ hellos' = hellos \ {c}
  /\ claiming' = claiming \cup {c}
  /\ UNCHANGED <<lifecycleVars, obsConn, serverVars, made, down, up, nodeVars>>

\* A retired or abandoned registration is answered with reject.
RejectHello(c) ==
  /\ c \in hellos
  /\ node.status \in {"retired", "abandoned"}
  /\ hellos' = hellos \ {c}
  /\ down' = IF agent.conn = c THEN <<[type |-> "reject"]>> ELSE down
  /\ UNCHANGED <<lifecycleVars, obsConn, serverVars, made, claiming, up, nodeVars>>

\* A socket that died before its process was registered.
DropHello(c) ==
  /\ c \in hellos \cup claiming /\ c # agent.conn
  /\ hellos' = hellos \ {c}
  /\ claiming' = claiming \ {c}
  /\ UNCHANGED <<lifecycleVars, obsConn, serverVars, made, down, up, nodeVars>>

\* claim_node/2 and the rest of Hello: the newest authenticated connection
\* replaces the registered one, sends connected, subscribes, and selects the
\* biots of its snapshot.
ClaimNode(c) ==
  /\ c \in claiming
  /\ server.phase # "snapshot"   \* the old process answers :replaced after its handler
  /\ c = agent.conn \/ made < MaxConnections
  /\ claiming' = claiming \ {c}
  /\ server' = [conn |-> c, phase |-> "snapshot",
                todo |-> {b \in Biots : Included(b)}, items |-> NoSpecs]
  /\ closing' = FALSE /\ up' = <<>>
  /\ down' = IF agent.conn = c THEN <<[type |-> "connected"]>> ELSE down
  /\ UNCHANGED <<lifecycleVars, obsConn, toWake, made, hellos, nodeVars>>

\* BiotSpecs.build/1 reads one row at a time, after the selection.
BuildItem(b) ==
  /\ server.phase = "snapshot" /\ b \in server.todo
  /\ server' = [server EXCEPT !.todo = @ \ {b},
                              !.items = [@ EXCEPT ![b] = biot[b]]]
  /\ UNCHANGED <<lifecycleVars, obsConn, toWake, closing, linkVars, nodeVars>>

\* Begin, the items and the end: the node only stages them until the end
\* arrives and discards what a lost link interrupts, so they are one message.
SendSnapshot ==
  /\ server.phase = "snapshot" /\ server.todo = {}
  /\ down' = ToNode(<<[type |-> "snapshot", specs |-> server.items]>>)
  /\ server' = [server EXCEPT !.phase = "synchronizing", !.items = NoSpecs]
  /\ UNCHANGED <<lifecycleVars, obsConn, toWake, closing, made, hellos, claiming, up, nodeVars>>

\* {:biot_spec_changed, biot_id}: dropped while the snapshot is under way.
HandleWake(b) ==
  /\ server.phase \in {"synchronizing", "ready"} /\ b \in toWake
  /\ toWake' = toWake \ {b}
  /\ down' = IF server.phase = "ready" THEN ToNode(<<DesiredMessage(b)>>) ELSE down
  /\ UNCHANGED <<lifecycleVars, obsConn, server, closing, made, hellos, claiming, up, nodeVars>>

\* Mutant of Sweep: a sweep forgets the biots whose wake was lost.
SweepAccepted(bs) ==
  /\ server.phase = "ready"
  /\ Len(down) < MaxQueue
  /\ bs # {} /\ \A b \in bs : Included(b) /\ Accepted(b)
  /\ down' = ToNode(SetToSeq({DesiredMessage(b) : b \in bs}))
  /\ UNCHANGED <<lifecycleVars, obsConn, serverVars, made, hellos, claiming, up, nodeVars>>

\* :desired_sweep sends every biot that is behind; one that is behind only in
\* its access revision is any other included one.
Sweep(bs) ==
  /\ server.phase = "ready"
  /\ Len(down) < MaxQueue
  /\ Behind \subseteq bs /\ bs # {} /\ \A b \in bs : Included(b)
  /\ down' = ToNode(SetToSeq({DesiredMessage(b) : b \in bs}))
  /\ UNCHANGED <<lifecycleVars, obsConn, serverVars, made, hellos, claiming, up, nodeVars>>

\* Synchronized, for the connection's own id.
HandleSynchronized ==
  /\ up # <<>> /\ Head(up).type = "synchronized"
  /\ server.phase = "synchronizing"
  /\ server' = [server EXCEPT !.phase = "ready"]
  /\ up' = Tail(up)
  /\ UNCHANGED <<lifecycleVars, obsConn, toWake, closing, made, hellos, claiming, down, nodeVars>>

HandleObservation ==
  /\ up # <<>> /\ Head(up).type = "observation"
  /\ server.phase = "ready"
  /\ LET b == Head(up).biot IN
       IF Created(b) /\ Head(up).report.revision <= biot[b].revision
         THEN /\ Observe(b, Head(up).report)
              /\ obsConn' = [obsConn EXCEPT ![b] = server.conn]
         ELSE UNCHANGED <<lifecycleVars, obsConn>>
  /\ up' = Tail(up)
  /\ UNCHANGED <<serverVars, made, hellos, claiming, down, nodeVars>>

HandleNodeObservation ==
  /\ up # <<>> /\ Head(up).type = "node_observation"
  /\ server.phase = "ready"
  /\ ObserveNode(Head(up).orphans)
  /\ up' = Tail(up)
  /\ UNCHANGED <<obsConn, serverVars, made, hellos, claiming, down, nodeVars>>

\* The process ends, and its mailbox and unread bytes with it: the
\* registration changed, or a message came in the wrong phase.
UnexpectedByServer ==
  up # <<>> /\ server.phase # (IF Head(up).type = "synchronized" THEN "synchronizing" ELSE "ready")

EndConnection ==
  /\ server.phase \notin {"none", "snapshot"}
  /\ server' = NoConnection
  /\ closing' = FALSE /\ up' = <<>>
  /\ UNCHANGED <<lifecycleVars, obsConn, toWake, made, hellos, claiming, down, nodeVars>>

ServerCloses == (closing \/ UnexpectedByServer) /\ EndConnection

\* The server misses a heartbeat or sees the socket closed.
ServerLosesLink == made < MaxConnections /\ EndConnection

\* The server restarts: every process is gone, every committed row stays.
ServerCrashes ==
  /\ faults.crashes < MaxCrashes /\ made <= LastCrash
  /\ faults' = [faults EXCEPT !.crashes = @ + 1]
  /\ server' = NoConnection
  /\ toWake' = {} /\ closing' = FALSE /\ hellos' = {} /\ claiming' = {} /\ up' = <<>>
  /\ UNCHANGED <<lifecycleVars, obsConn, made, down, agent, journalVars, controllerVars, host>>

ServerNext ==
  \/ \E b \in Biots : Request(b) \/ LoseWake(b) \/ BuildItem(b) \/ HandleWake(b)
  \/ \E bs \in SUBSET Biots : Sweep(bs)
  \/ \E c \in 1..MaxConnections : Authenticate(c) \/ RejectHello(c) \/ DropHello(c) \/ ClaimNode(c)
  \/ ReloadNodes \/ SendSnapshot \/ HandleSynchronized \/ HandleObservation
  \/ HandleNodeObservation \/ ServerCloses \/ ServerLosesLink \/ ServerCrashes
=============================================================================
