------------------------------ MODULE Delivery ------------------------------
(***************************************************************************)
(* How the server's desired rows reach a node, and how what the node       *)
(* inspects comes back: ServerControl with the node's half, which is       *)
(* Biot.Node.Control.Connection, the journal's intents and the controllers.*)
(***************************************************************************)
EXTENDS ServerControl

-----------------------------------------------------------------------------
(* Controllers.  Every event runs one handler: reload the intent, inspect, *)
(* put the report in the outbox, and decide on one action.                 *)

\* Reconcile.next/3 once nothing is in flight, waits or has failed.  `prepare`
\* stands for resolve and prepare.
NextAction(spec, h) ==
  IF spec.state # "running" /\ h.container # "absent" THEN "retire"
  ELSE IF spec.state = "destroyed"
    THEN IF h.prepared THEN "release_environment"
         ELSE IF h.data = "present" THEN "remove_data"
         ELSE IF h.data = "uninitialized" THEN "release_allocation"
         ELSE "settled"
  ELSE IF h.data = "no_allocation" THEN "allocate"
  ELSE IF h.data = "uninitialized" THEN "initialize"
  ELSE IF ~h.prepared THEN "prepare"
  ELSE IF h.env # spec.env THEN "install"
  ELSE IF spec.state = "running" /\ h.container = "absent" THEN "start"
  ELSE "settled"

\* What the action of controller `c` does to the host when it succeeds.  One
\* that finds what it needs given back changes nothing.
Effect(c, h) ==
  CASE c.action = "retire" -> [h EXCEPT !.container = "absent"]
    [] c.action = "release_environment" -> [h EXCEPT !.prepared = FALSE, !.env = NoEnv]
    [] c.action = "remove_data" /\ h.data = "present" -> [h EXCEPT !.data = "uninitialized"]
    [] c.action = "release_allocation" -> [h EXCEPT !.data = "no_allocation"]
    [] c.action = "allocate" /\ h.data = "no_allocation" -> [h EXCEPT !.data = "uninitialized"]
    [] c.action = "initialize" /\ h.data = "uninitialized" -> [h EXCEPT !.data = "present"]
    [] c.action = "prepare" /\ h.data = "present" -> [h EXCEPT !.prepared = TRUE]
    [] c.action = "install" /\ h.prepared -> [h EXCEPT !.env = c.spec.env]
    [] c.action = "start" /\ h.env = c.spec.env -> [h EXCEPT !.container = "running"]
    [] OTHER -> h

\* Action.cancellable?/1: of no value once execution must end.
Cancellable(action) == action \in {"prepare", "start"}

\* Observation.report/2.
Report(c, h) ==
  [revision |-> c.spec.revision, env |-> h.env, container |-> h.container, data |-> h.data,
   failure |-> c.retry.failure]

Blocked(c) == c.retry.failure \in {"after_change", "operator"}
Ready(c) == c.phase = "idle" /\ ~Blocked(c)
Settles(c, h) == Ready(c) /\ NextAction(c.spec, h) = "settled"
Starts(c, h) == Ready(c) /\ NextAction(c.spec, h) # "settled"

\* Mutant of Finished: a destruction waits for nothing in flight.
FinishedWhileRunning(c, h) == c.spec.state = "destroyed" /\ h = Clean

Finished(c, h) == Settles(c, h) /\ c.spec.state = "destroyed"

\* BiotController.decide/3.  An action starts after its attempt is counted,
\* which also ends the backoff that was owed.
Decided(c, h) ==
  CASE Finished(c, h) -> NoController
    [] c.phase = "running" /\ c.spec.state # "running" /\ Cancellable(c.action)
         -> [c EXCEPT !.phase = "cancelling"]
    [] Starts(c, h)
         -> [c EXCEPT !.phase = "running", !.action = NextAction(c.spec, h),
                      !.at = c.spec.revision, !.retry.due = FALSE]
    [] OTHER -> c

\* BiotController.accept/2: a new revision brings its own retry record and
\* drops a wake that belonged to the old one.
Accept(c, spec, record) ==
  IF spec.revision = c.spec.revision THEN c
  ELSE [c EXCEPT !.spec = spec, !.retry = record,
                 !.phase = IF @ \in {"recovering", "running", "cancelling"} THEN @ ELSE "idle"]

\* A controller stops normally, so the task it is linked to runs on.
LeftBehind(b, c) ==
  IF c.phase \in {"running", "cancelling"} THEN [stray EXCEPT ![b] = c] ELSE stray

\* Inspect, report, decide.  `c` is the controller, `h` what it inspects, and
\* `record` the journal's retry record after the handler's own write.
Inspect(b, c, h, record) ==
  /\ outbox' = [outbox EXCEPT ![b] = Report(c, h)]
  /\ ctl' = [ctl EXCEPT ![b] = Decided(c, h)]
  /\ receipt' = IF Finished(c, h) /\ intent[b] # NoIntent
                  THEN [receipt EXCEPT ![b] = Report(c, h)]
                  ELSE receipt
  /\ retry' = [retry EXCEPT ![b] = IF Finished(c, h) THEN NoRetry
                                   ELSE IF Starts(c, h) THEN [record EXCEPT !.due = FALSE]
                                   ELSE record]
  /\ stray' = IF Decided(c, h) = NoController THEN LeftBehind(b, c) ELSE stray

\* BiotController.reload/1: a controller whose intent is gone stops.
ReloadIntent(b, c, h, record) ==
  IF intent[b] = NoIntent
    THEN /\ ctl' = [ctl EXCEPT ![b] = NoController]
         /\ stray' = LeftBehind(b, c)
         /\ UNCHANGED <<outbox, receipt, retry>>
    ELSE Inspect(b, Accept(c, intent[b], record), h, record)

\* Mutant of Converge: the journal takes an attempt of any revision.
ConvergeUnchecked(b, c, h) == Inspect(b, c, h, retry[b])

\* BiotController.converge/1.  An attempt is refused when the journal holds
\* another revision, and the controller then reads the intent again.
Converge(b, c, h) ==
  IF Starts(c, h) /\ c.spec.revision # intent[b].revision
    THEN ReloadIntent(b, c, h, retry[b])
    ELSE Inspect(b, c, h, retry[b])

controlUnchanged == <<lifecycleVars, obsConn, serverVars, linkVars, agent>>

\* handle_cast(:intent_changed).
HandleIntentChanged(b) ==
  /\ b \in poked
  /\ poked' = poked \ {b}
  /\ IF ctl[b].phase = "none" THEN UNCHANGED <<outbox, ctl, receipt, retry, stray>>
     ELSE ReloadIntent(b, ctl[b], host[b], retry[b])
  /\ UNCHANGED <<controlUnchanged, intent, host, faults>>

\* Mutant of Recovered: a restart forgets the backoff that was owed.
RecoveredAtOnce(b) ==
  /\ ctl[b].phase = "recovering"
  /\ ReloadIntent(b, [ctl[b] EXCEPT !.phase = "idle"], host[b], retry[b])
  /\ UNCHANGED <<controlUnchanged, intent, host, poked, faults>>

\* The recovery task confirmed that no build worker is left.  A backoff the
\* last controller owed is served first.
Recovered(b) ==
  /\ ctl[b].phase = "recovering"
  /\ IF ctl[b].retry.due
       THEN /\ ctl' = [ctl EXCEPT ![b].phase = "backing_off"]
            /\ UNCHANGED <<outbox, receipt, retry, stray>>
       ELSE ReloadIntent(b, [ctl[b] EXCEPT !.phase = "idle"], host[b], retry[b])
  /\ UNCHANGED <<controlUnchanged, intent, host, poked, faults>>

\* The wakes of a backoff and of a settled biot converge without a reload.
RetryLater(b) ==
  /\ ctl[b].phase = "backing_off"
  /\ Converge(b, [ctl[b] EXCEPT !.phase = "idle"], host[b])
  /\ UNCHANGED <<controlUnchanged, intent, host, poked, faults>>

ObserveAgain(b) ==
  /\ Settles(ctl[b], host[b])
  /\ Converge(b, ctl[b], host[b])
  /\ UNCHANGED <<controlUnchanged, intent, host, poked, faults>>

\* Mutant of Counts: a result counts for the revision the controller holds.
CountsForAnyEffect(b, c) == c.spec.revision = intent[b].revision

\* BiotController.record/3: a result counts for the revision its effect
\* started under, and only while the journal still holds that revision.
Counts(b, c) == c.at = c.spec.revision /\ c.at = intent[b].revision

\* What finish_action/3 leaves of the controller, and of the journal's record.
Recording(b, record) == [ctl[b] EXCEPT !.phase = "idle",
                                       !.retry = IF Counts(b, ctl[b]) THEN record ELSE @]
Journalled(b, record) == IF Counts(b, ctl[b]) THEN record ELSE retry[b]

\* An effect succeeded: the failure is cleared.
Succeed(b) ==
  LET h == Effect(ctl[b], host[b])
  IN  /\ ctl[b].phase = "running"
      /\ host' = [host EXCEPT ![b] = h]
      /\ ReloadIntent(b, Recording(b, NoRetry), h, Journalled(b, NoRetry))
      /\ UNCHANGED <<controlUnchanged, intent, poked, faults>>

\* An effect failed: an automatic failure is retried after a backoff.
Fail(b, policy) ==
  LET record == [failure |-> policy, due |-> policy = "automatic"]
      c == Recording(b, record)
  IN  /\ ctl[b].phase = "running"
      /\ faults.failures < MaxFailures
      /\ faults' = [faults EXCEPT !.failures = @ + 1]
      /\ ReloadIntent(b, IF Counts(b, ctl[b]) /\ record.due
                           THEN [c EXCEPT !.phase = "backing_off"] ELSE c,
                      host[b], Journalled(b, record))
      /\ UNCHANGED <<controlUnchanged, intent, host, poked>>

\* A cancelled effect ends, having done its work or not, and is recovered from.
EndCancelled(b) ==
  /\ ctl[b].phase = "cancelling"
  /\ \E h \in {host[b], Effect(ctl[b], host[b])} : host' = [host EXCEPT ![b] = h]
  /\ ctl' = [ctl EXCEPT ![b].phase = "recovering"]
  /\ UNCHANGED <<controlUnchanged, journalVars, outbox, poked, stray, faults>>

\* The task of a controller that has stopped ends.
EndStray(b) ==
  /\ stray[b] # NoController
  /\ \E h \in {host[b], Effect(stray[b], host[b])} : host' = [host EXCEPT ![b] = h]
  /\ stray' = [stray EXCEPT ![b] = NoController]
  /\ UNCHANGED <<controlUnchanged, journalVars, outbox, ctl, poked, faults>>

-----------------------------------------------------------------------------
(* The node's connection process.                                          *)

ToServer(messages) == IF agent.conn = server.conn THEN up \o messages ELSE up

Started(spec, record) ==
  [NoController EXCEPT !.phase = "recovering", !.spec = spec, !.retry = record]

\* Controllers.intent_changed/1 for each biot: poke the controller that runs,
\* start the one that does not, unless its destruction has a receipt.
AnnounceIntents(bs) ==
  /\ ctl' = [b \in Biots |->
               IF b \in bs /\ ctl[b].phase = "none" /\ receipt'[b] = NoReport
                 THEN Started(intent'[b], retry'[b]) ELSE ctl[b]]
  /\ poked' = poked \cup {b \in bs : ctl[b].phase # "none"}

\* The node dials and sends hello.
Dial ==
  /\ agent.phase = "down" /\ made < MaxConnections
  /\ made' = made + 1
  /\ hellos' = hellos \cup {made + 1}
  /\ agent' = [Disconnected EXCEPT !.conn = made + 1, !.phase = "handshake"]
  /\ down' = <<>>
  /\ UNCHANGED <<lifecycleVars, obsConn, serverVars, claiming, up, journalVars, controllerVars,
                 host, faults>>

HandleConnected ==
  /\ down # <<>> /\ Head(down).type = "connected"
  /\ agent.phase = "handshake"
  /\ agent' = [agent EXCEPT !.phase = "synchronizing"]
  /\ down' = Tail(down)
  /\ UNCHANGED <<lifecycleVars, obsConn, serverVars, made, hellos, claiming, up, journalVars,
                 controllerVars, host, faults>>

\* SynchronizeEnd: Journal.replace_intents/1, then every controller is told,
\* then the server, and an announcement is queued.
CommitSnapshot ==
  /\ down # <<>> /\ Head(down).type = "snapshot"
  /\ agent.phase = "synchronizing"
  /\ intent' = Head(down).specs
  /\ receipt' = [b \in Biots |-> IF intent'[b] = NoIntent THEN NoReport ELSE receipt[b]]
  /\ retry' = [b \in Biots |-> IF intent'[b].revision = intent[b].revision
                                 THEN retry[b] ELSE NoRetry]
  /\ AnnounceIntents({b \in Biots : intent'[b] # NoIntent \/ ctl[b].phase # "none"})
  /\ up' = ToServer(<<[type |-> "synchronized"]>>)
  /\ agent' = [agent EXCEPT !.phase = "ready", !.announce = TRUE]
  /\ down' = Tail(down)
  /\ UNCHANGED <<lifecycleVars, obsConn, serverVars, made, hellos, claiming, outbox, stray, host, faults>>

\* Desired: Journal.put_intent/1, the receipt again, and the controller.
HandleDesired ==
  /\ down # <<>> /\ Head(down).type = "desired"
  /\ agent.phase = "ready"
  /\ LET b == Head(down).biot
         spec == Head(down).spec
     IN  /\ intent' = [intent EXCEPT ![b] = spec]
         /\ retry' = IF spec.revision = intent[b].revision THEN retry
                     ELSE [retry EXCEPT ![b] = NoRetry]
         /\ receipt' = receipt
         /\ outbox' = IF receipt[b] = NoReport THEN outbox ELSE [outbox EXCEPT ![b] = receipt[b]]
         /\ AnnounceIntents({b})
  /\ down' = Tail(down)
  /\ UNCHANGED <<lifecycleVars, obsConn, serverVars, agent, made, hellos, claiming, up, stray, host, faults>>

Observation(b, report) == [type |-> "observation", biot |-> b, report |-> report]

\* Drain and send every report of the table `rows`, with `extra` after them.
SendReports(rows, extra) ==
  /\ up' = ToServer(SetToSeq({Observation(b, rows[b]) : b \in {c \in Biots : rows[c] # NoReport}})
                      \o extra)
  /\ outbox' = [b \in Biots |-> NoReport]

\* Mutant of Drain: reports leave as soon as the link has a version.
DrainEarly ==
  /\ agent.phase \in {"synchronizing", "ready"}
  /\ \E b \in Biots : outbox[b] # NoReport
  /\ Len(up) < MaxQueue
  /\ SendReports(outbox, <<>>)
  /\ UNCHANGED <<lifecycleVars, obsConn, serverVars, agent, made, hellos, claiming, down, journalVars,
                 ctl, poked, stray, host, faults>>

\* handle_cast(:drain): only a ready link drains.
Drain ==
  /\ agent.phase = "ready"
  /\ \E b \in Biots : outbox[b] # NoReport
  /\ Len(up) < MaxQueue
  /\ SendReports(outbox, <<>>)
  /\ UNCHANGED <<lifecycleVars, obsConn, serverVars, agent, made, hellos, claiming, down, journalVars,
                 ctl, poked, stray, host, faults>>

Orphans == {b \in Biots : host[b].data # "no_allocation" /\ intent[b] = NoIntent}

\* {:announce, _}: receipts and the orphan report go through the outbox too.
Announce ==
  /\ agent.phase = "ready" /\ agent.announce
  /\ SendReports([b \in Biots |-> IF receipt[b] # NoReport THEN receipt[b] ELSE outbox[b]],
                 <<[type |-> "node_observation", orphans |-> Orphans]>>)
  /\ agent' = [agent EXCEPT !.announce = FALSE]
  /\ UNCHANGED <<lifecycleVars, obsConn, serverVars, made, hellos, claiming, down, journalVars,
                 ctl, poked, stray, host, faults>>

\* The phase each message of the server is handled in.
Expected(type) ==
  CASE type \in {"connected", "reject"} -> "handshake"
    [] type = "snapshot" -> "synchronizing"
    [] type = "desired" -> "ready"

UnexpectedByNode == down # <<>> /\ agent.phase # Expected(Head(down).type)

Disconnect ==
  /\ agent.phase # "down"
  /\ agent' = Disconnected
  /\ down' = <<>>
  /\ UNCHANGED <<lifecycleVars, obsConn, serverVars, made, hellos, claiming, up, journalVars,
                 controllerVars, host, faults>>

\* The node drops its socket: the server's end is gone, it was rejected, or a
\* message came in the wrong phase.
NodeDisconnects ==
  /\ \/ agent.conn # server.conn /\ agent.conn \notin hellos \cup claiming
     \/ UnexpectedByNode
     \/ down # <<>> /\ Head(down).type = "reject"
  /\ Disconnect

\* The node misses a heartbeat or sees the socket closed.
NodeLosesLink == made < MaxConnections /\ Disconnect

\* The node restarts.  What was in flight on the host is done or not, and
\* Controllers.Starter starts a controller for every intent of the journal.
NodeCrashes ==
  /\ faults.crashes < MaxCrashes /\ made <= LastCrash
  /\ faults' = [faults EXCEPT !.crashes = @ + 1]
  /\ agent' = Disconnected /\ down' = <<>>
  /\ outbox' = [b \in Biots |-> NoReport]
  /\ poked' = {}
  /\ stray' = [b \in Biots |-> NoController]
  /\ ctl' = [b \in Biots |-> IF intent[b] # NoIntent /\ receipt[b] = NoReport
                               THEN Started(intent[b], retry[b]) ELSE NoController]
  /\ \E done \in SUBSET Biots :
       host' = [b \in Biots |->
                  IF b \notin done THEN host[b]
                  ELSE IF ctl[b].phase \in {"running", "cancelling"} THEN Effect(ctl[b], host[b])
                  ELSE Effect(stray[b], host[b])]
  /\ UNCHANGED <<lifecycleVars, obsConn, serverVars, made, hellos, claiming, up, journalVars>>

ControllerNext(b) ==
  \/ HandleIntentChanged(b) \/ Recovered(b) \/ RetryLater(b) \/ ObserveAgain(b)
  \/ Succeed(b) \/ \E policy \in {"automatic", "after_change"} : Fail(b, policy)
  \/ EndCancelled(b) \/ EndStray(b)

NodeNext ==
  \/ Dial \/ HandleConnected \/ CommitSnapshot \/ HandleDesired \/ Drain \/ Announce
  \/ NodeDisconnects \/ NodeLosesLink \/ NodeCrashes
  \/ \E b \in Biots : ControllerNext(b)

DeliveryNext == ServerNext \/ NodeNext

DeliverySpec == DeliveryInit /\ [][DeliveryNext]_deliveryVars

-----------------------------------------------------------------------------
(* Fairness: processes that can take a step take it, timers fire, and an   *)
(* effect ends.  Clients, operators and faults owe nothing, and a link may *)
(* be lost at any time until the last connection is made.                  *)

ServerFairness ==
  /\ WF_deliveryVars(\/ \E c \in 1..MaxConnections : Authenticate(c) \/ ClaimNode(c)
                     \/ \E b \in Biots : BuildItem(b)
                     \/ SendSnapshot \/ HandleSynchronized
                     \/ HandleObservation \/ HandleNodeObservation)
  /\ WF_deliveryVars(Sweep(Behind))

NodeFairness ==
  /\ WF_deliveryVars(\/ Dial \/ NodeDisconnects \/ Announce
                     \/ HandleConnected \/ CommitSnapshot \/ HandleDesired)
  /\ WF_deliveryVars(Drain)
  /\ \A b \in Biots :
       /\ WF_deliveryVars(HandleIntentChanged(b))
       /\ WF_deliveryVars(\/ Recovered(b) \/ RetryLater(b) \/ EndCancelled(b)
                          \/ Succeed(b) \/ ObserveAgain(b))
       /\ WF_deliveryVars(EndStray(b))

\* Owners, groups and statuses that decide access stop changing, so from some
\* time on a sweep sends only biots whose desired revision is behind.
AccessSettles == <>[][\A bs \in SUBSET Biots : Sweep(bs) => bs = Behind]_deliveryVars

DeliveryFairness == ServerFairness /\ NodeFairness /\ AccessSettles

FairDeliverySpec == DeliverySpec /\ DeliveryFairness

-----------------------------------------------------------------------------
\* connection.ex (server) 563 and connection.ex (node) 472: neither end ever
\* closes a connection because a message of the other came in the wrong phase,
\* in whatever order wakes, sweeps, snapshots and reports are sent.
NoProtocolError ==
  agent.conn = server.conn => ~UnexpectedByServer /\ ~UnexpectedByNode

\* synchronization.ex 100-115: a biot the sweep takes for delivered really is
\* the one the node's journal holds, after any loss, restart or lost wake.
\* Destroyed biots are DestructionNotForgotten's business.
AcceptedIsTruthful ==
  server.phase = "ready" =>
    \A b \in Biots : Accepted(b) /\ biot[b].state # "destroyed" => intent[b] = biot[b]

\* biot_controller.ex 348-382 and journal.ex 424-443: an action never starts
\* for an intent that the journal has already replaced.
ActionsFollowJournal ==
  [][\A b \in Biots :
       ctl'[b].phase = "running" /\ ctl[b].phase # "running" => ctl'[b].spec = intent[b]]_ctl

\* biot_controller.ex 664-674: a failure is recorded against the revision whose
\* effect failed, never against the one the controller has moved on to.
FailureBlamesItsRevision ==
  [][\A b \in Biots :
       retry'[b].failure \notin {"none", retry[b].failure} => ctl[b].at = intent[b].revision]_retry

\* biot_controller.ex 333-336: the backoff a failure owes is served before the
\* revision is tried again, also when the node restarts in the middle of it.
BackoffIsServed ==
  [][\A b \in Biots :
       retry[b].due /\ ctl'[b].phase = "running" /\ ctl[b].phase # "running"
         => ctl[b].phase = "backing_off" \/ ctl[b].spec # intent[b]]_ctl

\* biot_controller.ex 517-523: the receipt of a destruction is written when the
\* node holds nothing of the biot, and by a controller that leaves no effect
\* behind, whatever was in flight when the destruction arrived.
ReceiptIsLast ==
  [][\A b \in Biots : receipt'[b] \notin {receipt[b], NoReport} =>
                        host'[b] = Clean /\ stray'[b] = stray[b]]_receipt

Waits(b, r, kinds) == ops[b][r].kind \in kinds /\ ops[b][r].outcome \in Live

\* connection.ex (server) 208-234: whatever wakes, messages and connections are
\* lost, the operations of a biot end once a connection stays up and no command
\* follows.  Destructions are DestructionNotForgotten's business.
OperationsEnd ==
  \A b \in Biots : (\E r \in Revisions : Waits(b, r, Kinds \ {"destroy"}))
                   ~> (\A r \in Revisions : ~Waits(b, r, Kinds \ {"destroy"}))

Matches(d, h) ==
  /\ d.state = "running" => h.container = "running" /\ h.env = d.env
  /\ d.state = "stopped" => h.container = "absent" /\ h.env = d.env

\* biot_controller.ex 384-390: the host ends up as the last accepted command
\* asked, and stays so.
HostConverges ==
  \A b \in Biots : <>[](Created(b) => Matches(biot[b], host[b]))

-----------------------------------------------------------------------------
(* What the documentation says of the system and the code does not keep.   *)

\* model.md 495-496: a completed stop guarantees that the container is absent.
CompletedStopMeansAbsent ==
  \A b \in Biots : LET r == biot[b].revision IN
    r > 0 /\ ops[b][r] = [kind |-> "stop", outcome |-> "succeeded"] => host[b].container = "absent"

\* model.md 2003 and connection.ex (node) 581-582: a destroyed biot leaves the
\* snapshot once its final cleanup is recorded, and the server keeps sending it
\* until then; so a destruction that waits is sent, or held by the node.
DestructionNotForgotten ==
  \A b \in Biots, r \in Revisions :
    Waits(b, r, {"destroy"}) => Included(b) \/ intent[b] # NoIntent \/ ctl[b].phase # "none"
=============================================================================
